---- MODULE Spec2Model ----
(***************************************************************************)
(* NeoChat chat relay: the session/broadcast engine of the three server    *)
(* variants (server_tcp.py, server_ws.py, server_https.py).                *)
(*                                                                         *)
(* One behaviour runs one variant (variable `variant`).  Python dicts are  *)
(* sequences of <<key, value>> pairs in insertion order where the order is *)
(* read by the code (clients), and functions otherwise.  A coroutine step  *)
(* is the code between two awaits; a thread step is the code under one     *)
(* lock acquisition, or one lock-free access of shared state.              *)
(***************************************************************************)
EXTENDS Integers, Sequences, FiniteSets, TLC

\* ---------------------------------------------------------------- bounds
\* client lines (chat or command) read by the server in one behaviour
MaxLines == 1
\* wake-ups of the periodic save-and-clear thread in one behaviour
MaxTicks == 1

\* ---------------------------------------------------------------- universe
Variants == {"tcp", "ws", "http"}
\* connection objects (asyncio StreamWriter / websocket), each used once
Writers == {"w1", "w2", "w3"}
None == "<None>"
Unknown == "Unknown"

\* the order in which connection objects are created
Ord(w) == CASE w = "w1" -> 1 [] w = "w2" -> 2 [] OTHER -> 3
\* addr[0] of a peer: the n-th host
HostOf(n) == "10.0.0." \o ToString(n)
\* addr[1] of the peer
PeerPort(w) == "500" \o ToString(Ord(w))

\* first lines a connection may send as its name
HandshakeInputs == {"a", " a", "", "GET / HTTP/1.1"}

VARIABLES
    variant,              \* which server runs
    client_ip,            \* handle_client's local `client_ip`
    clients,              \* dict key -> username, insertion ordered
    client_info,          \* dict writer -> {address, ip, username}
    ip_to_writer,         \* TCP: dict ip -> writer
    messages,             \* history list
    message_count,
    is_running,
    pc,                   \* position of every coroutine / thread
    sock,                 \* transport of a connection: none, open, reset (by peer), closed (by server)
    wrote,                \* the <<connection, line>> pairs written by the last step ("console":
                          \* the operator's terminal)
    username,             \* handle_client's local `username`
    old_writer,           \* handle_client's local `old_writer`, once it is being evicted
    bc,                   \* locals of a running broadcast() call, per caller
    received,             \* for each connection whose peer is watched: the lines written to
                          \* its transport, in the order of the writes
    inbox,                \* TCP: the lines in a connection's StreamReader that readline() has
                          \* not returned yet
    log_data,             \* _save_logs_to_file's log_data per calling thread, kept while its call
                          \* (and, in the periodic task, the clear that follows it) runs
    lines_read,           \* number of client lines read so far
    ticks,                \* number of periodic wake-ups so far
    username_to_session,  \* HTTP: dict username -> session id
    client_activity,      \* HTTP: dict session id -> last_active
    session_counter,      \* HTTP
    lock,                 \* HTTP: holder of self.lock, or None
    now,                  \* HTTP: the wall clock, in seconds
    request,              \* HTTP: the locals of the request handler running in a thread
    agent_sid             \* HTTP: the session id a user agent was given by /join, or None

httpVars == <<username_to_session, client_activity, session_counter, lock, now, request, agent_sid>>
connVars == <<client_ip, client_info, ip_to_writer, sock, username, old_writer, bc, received, inbox, inbox>>
vars == <<variant, httpVars, clients, client_info, ip_to_writer, messages, message_count,
          is_running, pc, sock, wrote, username, client_ip, old_writer, bc, received, inbox, inbox,
          log_data, lines_read, ticks>>

\* ---------------------------------------------------------------- dict helpers
Keys(d) == [i \in 1..Len(d) |-> d[i][1]]
Values(d) == [i \in 1..Len(d) |-> d[i][2]]
KeySet(d) == {d[i][1] : i \in 1..Len(d)}
ValueSet(d) == {d[i][2] : i \in 1..Len(d)}
Has(d, k) == k \in KeySet(d)
Get(d, k) == d[CHOOSE i \in 1..Len(d) : d[i][1] = k][2]
Del(d, k) == SelectSeq(d, LAMBDA e : e[1] # k)
Put(d, k, v) ==
    IF Has(d, k) THEN [i \in 1..Len(d) |-> IF d[i][1] = k THEN <<k, v>> ELSE d[i]]
    ELSE Append(d, <<k, v>>)
Range(s) == {s[i] : i \in 1..Len(s)}
FDel(f, k) == [x \in (DOMAIN f) \ {k} |-> f[x]]
FPut(f, k, v) == [x \in (DOMAIN f) \cup {k} |-> IF x = k THEN v ELSE f[x]]

\* ---------------------------------------------------------------- strings
StartsWith(s, p) == Len(s) >= Len(p) /\ SubSeq(s, 1, Len(p)) = p
RECURSIVE LStrip(_)
LStrip(s) == IF Len(s) > 0 /\ SubSeq(s, 1, 1) = " " THEN LStrip(SubSeq(s, 2, Len(s))) ELSE s
RECURSIVE RStrip(_)
RStrip(s) == IF Len(s) > 0 /\ SubSeq(s, Len(s), Len(s)) = " " THEN RStrip(SubSeq(s, 1, Len(s) - 1)) ELSE s
\* str.strip()
Strip(s) == RStrip(LStrip(s))
RECURSIVE JoinFrom(_, _)
JoinFrom(names, i) ==
    IF i > Len(names) THEN ""
    ELSE IF i = Len(names) THEN names[i]
    ELSE names[i] \o ", " \o JoinFrom(names, i + 1)
\* ', '.join(names)
Join(names) == JoinFrom(names, 1)
\* command.split()[0]: the text up to the first blank
RECURSIVE FirstTokenFrom(_, _)
FirstTokenFrom(s, i) ==
    IF i > Len(s) \/ SubSeq(s, i, i) = " " THEN SubSeq(s, 1, i - 1)
    ELSE FirstTokenFrom(s, i + 1)
FirstToken(s) == FirstTokenFrom(s, 1)

\* the request-line prefixes the TCP handshake refuses as a name
HandshakeNoise == {"GET ", "POST ", "PUT ", "DELETE ", "HEAD ", "OPTIONS ", "PATCH ", "HTTP/"}
IsNoiseName(name) == \E p \in HandshakeNoise : StartsWith(name, p)

\* ---------------------------------------------------------------- messages
SysMsg(text) == [type |-> "system", message |-> text]
ChatMsg(user, text) == [type |-> "message", username |-> user, message |-> text]
JoinText(name) == name \o " joined the room"
LeaveText(name) == name \o " left the room"
TimeoutText(name) == name \o " timed out and left the room"
WelcomeText(n) == "Welcome to NeoChat! online: " \o ToString(n)
SavedText == "log saved manually"
SaveFailedText == "log save failed"
\* what _save_logs_to_file and the periodic task log on the operator's terminal
LogSavedText == "log saved"
LogFailedText == "saving the log failed"
PeriodicFailedText == "periodic task failed: log not saved"
SaveLog(ok) == {<<"console", IF ok THEN LogSavedText ELSE LogFailedText>>}
HelpText == "commands: /help, /online, /ping, /stats, /savelog"
\* the operator console of the TCP server
ServerName == "Server"
ShutdownText == "the server is shutting down"
ShuttingDownLog == "shutting the server down"
BroadcastLog(message) == "sent to all: " \o message
PongText == "Pong! server is running"
OnlineText(d) == "online (" \o ToString(Len(d)) \o "): " \o Join(Values(d))
StatsText(count, n) == "stats: messages " \o ToString(count) \o ", online " \o ToString(n)
UnknownText(cmd) == "unknown command: " \o cmd \o ", type /help"
\* the warning logged when a name is taken and another one is given
RenamedLog(original_username, name) == "name " \o original_username \o " is taken, changed to " \o name
\* what the handshake logs about the name it has resolved
NameLog(original_username, name) ==
    IF name = original_username THEN {} ELSE {<<"console", RenamedLog(original_username, name)>>}

\* ---------------------------------------------------------------- name resolution
\* a renaming whose counter starts one too high and that does not look again
NextFreeNameFromTwo(original_username, counter, existing_names) ==
    original_username \o "_" \o ToString(counter + 1)
RECURSIVE NextFreeName(_, _, _)
NextFreeName(original_username, counter, existing_names) ==
    LET candidate == original_username \o "_" \o ToString(counter) IN
    IF candidate \in existing_names
    THEN NextFreeName(original_username, counter + 1, existing_names)
    ELSE candidate
\* a server that takes every name as asked for
ResolveNameAsAsked(name, existing_names) == name
\* a resolution that also avoids the names of the connections that are gone
ResolveNameEverUsed(name, existing_names) ==
    LET used == existing_names \cup ({username[v] : v \in Writers} \ {None}) IN
    IF name \in used THEN NextFreeName(name, 1, used) ELSE name
\* the name a session is given: existing_names are the names of the live sessions
ResolveName(name, existing_names) ==
    IF name \in existing_names THEN NextFreeName(name, 1, existing_names) ELSE name

\* ---------------------------------------------------------------- processes
\* HTTP user agents; each sends one request at a time, served by a thread of its own
Requests == {"t1", "t2"}
Procs == Writers \cup Requests \cup {"periodic", "cleanup", "console"}
NoFrame == [message |-> SysMsg(""), targets |-> <<>>, exclude |-> None, i |-> 0,
            failed |-> <<>>, after |-> None]
NoRequest == [op |-> None]
\* a session id that a user agent makes up: create_session never returns it
ForgedId == "session_0_0"
NoLog == [total_messages |-> -1, message_count |-> -1, current_online_users |-> -1,
          online_users |-> <<>>, messages |-> <<>>, session_info |-> <<>>]

Constructed ==
    /\ variant \in Variants
    /\ client_ip = [w \in Writers |-> None]
    /\ clients = <<>>
    /\ client_info = <<>>
    /\ ip_to_writer = <<>>
    /\ messages = <<>>
    /\ message_count = 0
    /\ is_running = TRUE
    /\ pc = [p \in Procs |-> IF p \in {"periodic", "cleanup"} THEN "sleep" ELSE "idle"]
    /\ sock = [w \in Writers |-> "none"]
    /\ wrote = {}
    /\ username = [w \in Writers |-> None]
    /\ old_writer = [w \in Writers |-> None]
    /\ bc = [p \in Writers \cup {"console"} |-> NoFrame]
    /\ inbox = [w \in Writers |-> <<>>]
    /\ log_data = [p \in Requests \cup {"periodic", "console"} |-> NoLog]
    /\ lines_read = 0
    /\ ticks = 0
    /\ username_to_session = <<>>
    /\ client_activity = <<>>
    /\ session_counter = 0
    /\ lock = None
    /\ now = 0
    /\ request = [t \in Requests |-> NoRequest]
    /\ agent_sid \in {[t \in Requests |-> None],
                     [t \in Requests |-> IF t = "t2" /\ variant = "http" THEN ForgedId ELSE None]}

\* the state after construction, no peer being watched
Init == Constructed /\ received = <<>>

\* The part of the state the TCP / WebSocket coroutines work on, as one record,
\* so that the code between two awaits composes as a function on it.  Every
\* step starts with nothing written.
Loop == [clients |-> clients, client_info |-> client_info, ip_to_writer |-> ip_to_writer,
         messages |-> messages, pc |-> pc, sock |-> sock, wrote |-> {},
         username |-> username, client_ip |-> client_ip, old_writer |-> old_writer, bc |-> bc,
         received |-> received, inbox |-> inbox]
Commit(S) ==
    /\ clients' = S.clients
    /\ client_info' = S.client_info
    /\ ip_to_writer' = S.ip_to_writer
    /\ messages' = S.messages
    /\ pc' = S.pc
    /\ sock' = S.sock
    /\ wrote' = S.wrote
    /\ username' = S.username
    /\ client_ip' = S.client_ip
    /\ old_writer' = S.old_writer
    /\ bc' = S.bc
    /\ received' = S.received
    /\ inbox' = S.inbox

\* transport.close()
Close(S, w) == [S EXCEPT !.sock[w] = "closed"]
\* The peer resets or closes its end.  The server learns of it only where it
\* touches the transport (drain, readline), so the event is taken at those places.
Reset(S, w) == [S EXCEPT !.sock[w] = IF @ = "open" THEN "reset" ELSE @]
\* self.log(text)
Log(S, lines) == [S EXCEPT !.wrote = @ \cup lines]
\* a transport that sends the line written last first
WriteAhead(S, w, data) ==
    IF S.sock[w] = "open"
    THEN [S EXCEPT !.wrote = @ \cup {<<w, data>>},
                   !.received = IF w \in DOMAIN @ THEN [@ EXCEPT ![w] = <<data>> \o @] ELSE @]
    ELSE S
\* writer.write(data): buffered on an open transport, dropped on a lost one
Write(S, w, data) ==
    IF S.sock[w] = "open"
    THEN [S EXCEPT !.wrote = @ \cup {<<w, data>>},
                   !.received = IF w \in DOMAIN @ THEN [@ EXCEPT ![w] = Append(@, data)] ELSE @]
    ELSE S

\* ================================================================ TCP server
\* _save_logs_to_file's log_data (time stamps left out)
TcpLogData(S, count) ==
    [total_messages |-> Len(S.messages),
     message_count |-> count,
     current_online_users |-> Len(S.clients),
     online_users |-> Values(S.clients),
     messages |-> S.messages,
     session_info |-> [i \in 1..Len(S.clients) |->
         [username |-> S.clients[i][2],
          address |-> IF S.clients[i][1] \in DOMAIN S.client_info
                      THEN S.client_info[S.clients[i][1]].address ELSE Unknown]]]

\* handle_client returns: its locals are gone
TcpReturn(S, w) ==
    [S EXCEPT !.pc[w] = "done", !.bc[w] = NoFrame, !.client_ip[w] = None, !.old_writer[w] = None]

\* send_server_message after the shutdown notice: writer.close() for every key of
\* self.clients, and the input loop ends
RECURSIVE TcpCloseAll(_, _)
TcpCloseAll(S, writers) ==
    IF writers = <<>> THEN S ELSE TcpCloseAll(Close(S, Head(writers)), Tail(writers))

\* what follows a broadcast() call in its caller, up to the caller's next await
TcpResume(S, p, after) ==
    CASE after = "welcome" ->
           \* welcome message to the new client, then the receive loop
           [Write(S, p, SysMsg(WelcomeText(Len(S.clients)))) EXCEPT !.pc[p] = "loop", !.bc[p] = NoFrame]
      [] after = "loop" -> [S EXCEPT !.pc[p] = "loop", !.bc[p] = NoFrame]
      [] after = "close" -> TcpReturn(Close(S, p), p)
      [] after = "said" ->
           \* the operator's message is out: back to the prompt
           [Log(S, {<<"console", BroadcastLog(S.bc[p].message.message)>>}) EXCEPT !.pc[p] = "idle", !.bc[p] = NoFrame]
      [] after = "shutdown" ->
           [TcpCloseAll(S, Keys(S.clients)) EXCEPT !.pc[p] = "done", !.bc[p] = NoFrame]
      [] OTHER -> [S EXCEPT !.pc[p] = "idle", !.bc[p] = NoFrame]

\* broadcast(): the `for writer in failed_clients` clean-up
RECURSIVE TcpDropFailed(_, _)
TcpDropFailed(S, failed) ==
    IF failed = <<>> THEN S
    ELSE TcpDropFailed([S EXCEPT !.clients = Del(@, Head(failed)),
                                 !.client_info = FDel(@, Head(failed))], Tail(failed))

\* a loop over the key list that does not skip `exclude`
NextTargetAll(targets, i, exclude) == IF i < Len(targets) THEN i + 1 ELSE 0
\* the first position after i of the key list whose writer is not `exclude`; 0 if none
NextTarget(targets, i, exclude) ==
    LET later == {j \in (i + 1)..Len(targets) : targets[j] # exclude} IN
    IF later = {} THEN 0 ELSE CHOOSE j \in later : \A k \in later : j <= k

\* broadcast(message, exclude): up to the first `await writer.drain()`
TcpBroadcast(S, p, message, exclude, after) ==
    LET targets == Keys(S.clients)
        first == NextTarget(targets, 0, exclude)
    IN IF Len(S.clients) = 0 \/ first = 0 THEN TcpResume(S, p, after)
       ELSE [Write(S, targets[first], message) EXCEPT
               !.bc[p] = [message |-> message, targets |-> targets, exclude |-> exclude,
                          i |-> first, failed |-> <<>>, after |-> after],
               !.pc[p] = "bcast"]

\* A broadcast that gives up at the first recipient whose drain() raises,
\* as a loop without the per-recipient try/except would.
TcpBroadcastStepAborting(S, p) ==
    LET f == S.bc[p]
        r == f.targets[f.i]
        next == NextTarget(f.targets, f.i, f.exclude)
    IN IF S.sock[r] # "open" THEN TcpResume(S, p, f.after)
       ELSE IF next # 0
       THEN [Write(S, f.targets[next], f.message) EXCEPT !.bc[p].i = next]
       ELSE TcpResume(S, p, f.after)

\* broadcast(): drain() of the current recipient returns or raises; then the next
\* write, or the clean-up and the return to the caller
TcpBroadcastStep(S, p) ==
    LET f == S.bc[p]
        r == f.targets[f.i]
        failed == IF S.sock[r] # "open" THEN Append(f.failed, r) ELSE f.failed
        next == NextTarget(f.targets, f.i, f.exclude)
    IN IF next # 0
       THEN [Write(S, f.targets[next], f.message) EXCEPT
               !.bc[p].i = next, !.bc[p].failed = failed]
       ELSE TcpResume(TcpDropFailed(S, failed), p, f.after)

\* handle_client: lines 184-190
TcpRegister(S, w, ip) ==
    [S EXCEPT !.client_info = FPut(@, w, [address |-> ip \o ":" \o PeerPort(w), ip |-> ip, username |-> None]),
              !.ip_to_writer = FPut(@, ip, w),
              !.pc[w] = "handshake"]

\* handle_client: the finally block
TcpFinally(S, w) ==
    IF Has(S.clients, w)
    THEN LET name == Get(S.clients, w)
             ip_owned == w \in DOMAIN S.client_info
                         /\ S.client_info[w].ip \in DOMAIN S.ip_to_writer
                         /\ S.ip_to_writer[S.client_info[w].ip] = w
             S1 == [S EXCEPT !.clients = Del(@, w),
                             !.username[w] = name,
                             !.ip_to_writer = IF ip_owned THEN FDel(@, S.client_info[w].ip) ELSE @,
                             !.client_info = FDel(@, w),
                             !.messages = Append(@, SysMsg(LeaveText(name)))]
         IN TcpBroadcast(S1, w, SysMsg(LeaveText(name)), None, "close")
    ELSE TcpResume(S, w, "close")

loopFrame == <<variant, httpVars, message_count, is_running, log_data, lines_read, ticks>>

\* connection objects are taken in the order w1, w2, w3
NextWriter(w) == \A v \in Writers : Ord(v) < Ord(w) => pc[v] # "idle"

\* a connection is accepted and handle_client runs to its first await
TcpAccept(w, ip) ==
    /\ variant = "tcp" /\ pc[w] = "idle" /\ NextWriter(w)
    /\ LET S == [Loop EXCEPT !.sock[w] = "open", !.client_ip[w] = ip] IN
       IF ip \in DOMAIN ip_to_writer /\ Has(clients, ip_to_writer[ip])
       THEN Commit([Close(S, ip_to_writer[ip]) EXCEPT !.pc[w] = "evict_wait",
                                                      !.old_writer[w] = ip_to_writer[ip]])
       ELSE Commit(TcpRegister(S, w, ip))
    /\ UNCHANGED loopFrame

\* an eviction that goes on without dropping the old connection's entries
TcpEvictDoneKeeping(w) ==
    /\ variant = "tcp" /\ pc[w] = "evict_wait"
    /\ Commit(TcpRegister(Loop, w, client_ip[w]))
    /\ UNCHANGED loopFrame

\* `await old_writer.wait_closed()` returns: the old connection's entries are dropped
TcpEvictDone(w) ==
    /\ variant = "tcp" /\ pc[w] = "evict_wait"
    /\ Commit(TcpRegister([Loop EXCEPT !.clients = Del(@, old_writer[w]),
                                       !.client_info = FDel(@, old_writer[w])], w, client_ip[w]))
    /\ UNCHANGED loopFrame

\* a handshake whose join message carries the name as the client sent it
TcpHandshakeNamingAsAsked(w, data) ==
    /\ variant = "tcp" /\ pc[w] = "handshake"
    /\ sock[w] = "open" \/ data = ""
    /\ LET name == Strip(data) IN
       IF name = "" \/ IsNoiseName(name)
       THEN Commit(TcpReturn(Close(Loop, w), w))
       ELSE LET resolved == ResolveName(name, ValueSet(clients))
                S == [Loop EXCEPT !.clients = Put(@, w, resolved),
                                  !.client_info[w].username = resolved,
                                  !.username[w] = resolved,
                                  !.messages = Append(@, SysMsg(JoinText(name)))]
            IN Commit(TcpBroadcast(Log(S, NameLog(name, resolved)), w,
                                   SysMsg(JoinText(name)), w, "welcome"))
    /\ UNCHANGED loopFrame

\* the first line arrives (an end of stream reads as the empty line)
TcpHandshake(w, data) ==
    /\ variant = "tcp" /\ pc[w] = "handshake"
    /\ sock[w] = "open" \/ data = ""
    /\ LET name == Strip(data) IN
       IF name = "" \/ IsNoiseName(name)
       THEN Commit(TcpReturn(Close(Loop, w), w))
       ELSE LET resolved == ResolveName(name, ValueSet(clients))
                S == [Loop EXCEPT !.clients = Put(@, w, resolved),
                                  !.client_info[w].username = resolved,
                                  !.username[w] = resolved,
                                  !.messages = Append(@, SysMsg(JoinText(resolved)))]
            IN Commit(TcpBroadcast(Log(S, NameLog(name, resolved)), w,
                                   SysMsg(JoinText(resolved)), w, "welcome"))
    /\ UNCHANGED loopFrame

\* no first line within 30 s
TcpHandshakeTimeout(w) ==
    /\ variant = "tcp" /\ pc[w] = "handshake"
    /\ Commit(TcpReturn(Close(Loop, w), w))
    /\ UNCHANGED loopFrame

\* broadcast() resumes after one `await writer.drain()`; lost: the recipient's peer
\* has reset the connection meanwhile
TcpBroadcastDrain(p, lost) ==
    /\ variant = "tcp" /\ pc[p] = "bcast"
    /\ lost => sock[bc[p].targets[bc[p].i]] = "open"
    /\ Commit(TcpBroadcastStep(IF lost THEN Reset(Loop, bc[p].targets[bc[p].i]) ELSE Loop, p))
    /\ UNCHANGED loopFrame

\* str.lower() on the letters commands are written in
LowerChar(c) ==
    CASE c = "A" -> "a" [] c = "E" -> "e" [] c = "G" -> "g" [] c = "H" -> "h" [] c = "I" -> "i"
      [] c = "L" -> "l" [] c = "N" -> "n" [] c = "O" -> "o" [] c = "P" -> "p" [] c = "S" -> "s"
      [] c = "T" -> "t" [] c = "V" -> "v" [] OTHER -> c
RECURSIVE Lower(_)
Lower(s) == IF Len(s) = 0 THEN "" ELSE LowerChar(SubSeq(s, 1, 1)) \o Lower(SubSeq(s, 2, Len(s)))

\* the header names and request lines the TCP receive loop drops silently
HttpMethods == {"GET ", "POST ", "PUT ", "DELETE ", "HEAD ", "OPTIONS ", "PATCH ", "TRACE ", "CONNECT "}
HttpHeaders == {"Host", "User-Agent", "Accept", "Accept-Encoding", "Accept-Language",
                "Connection", "Content-Type", "Content-Length", "Origin", "Referer",
                "Cache-Control", "Pragma", "Authorization", "Cookie", "Set-Cookie",
                "Access-Control-Request-Method", "Access-Control-Request-Headers",
                "X-Forwarded-For", "X-Forwarded-Proto", "X-Real-Ip", "X-Original-Host",
                "Sec-Fetch-Dest", "Sec-Fetch-Mode", "Sec-Fetch-Site", "Priority",
                "Upgrade", "Sec-WebSocket-Key", "Sec-WebSocket-Version"}
RECURSIVE BeforeColonFrom(_, _)
BeforeColonFrom(s, i) ==
    IF i > Len(s) THEN None
    ELSE IF SubSeq(s, i, i) = ":" THEN SubSeq(s, 1, i - 1)
    ELSE BeforeColonFrom(s, i + 1)
IsHttpNoise(message) ==
    \/ \E m \in HttpMethods : StartsWith(message, m)
    \/ StartsWith(message, "HTTP/")
    \/ /\ BeforeColonFrom(message, 1) # None
       /\ Strip(BeforeColonFrom(message, 1)) \in HttpHeaders

\* handle_command's response text; saved is the result of _save_logs_to_file
TcpCommandReply(S, count, command, saved) ==
    LET cmd == Lower(FirstToken(command)) IN
    CASE cmd = "/help" -> HelpText
      [] cmd = "/online" -> OnlineText(S.clients)
      [] cmd = "/ping" -> PongText
      [] cmd = "/stats" -> StatsText(count, Len(S.clients))
      [] cmd = "/savelog" -> IF saved THEN SavedText ELSE SaveFailedText
      [] OTHER -> UnknownText(cmd)

\* lines a joined client may send
ClientLines == {"hi", "/savelog", "/Online", "Host: example.org"}

\* handle_command's log line, written after the reply
CommandLog(name, command) == name \o " runs the command: " \o command

\* a receive loop whose command replies go into the history as well
TcpRecvLineRecordingReplies(w, data, ok) ==
    /\ variant = "tcp" /\ pc[w] = "loop" /\ sock[w] = "open" /\ is_running
    /\ lines_read < MaxLines /\ StartsWith(Strip(data), "/")
    /\ lines_read' = lines_read + 1
    /\ message_count' = message_count + 1
    /\ LET reply == SysMsg(TcpCommandReply(Loop, message_count + 1, Strip(data), ok)) IN
       Commit(Log(Write([Loop EXCEPT !.messages = Append(@, reply)], w, reply),
                  {<<"console", CommandLog(username[w], Strip(data))>>}))
    /\ UNCHANGED <<variant, httpVars, is_running, log_data, ticks>>

\* the receive loop handles one line; ok: whether a log file write succeeds
TcpLineFrom(S, w, data, ok) ==
    /\ lines_read' = lines_read + 1
    /\ LET message == Strip(data) IN
       IF message = "" \/ IsHttpNoise(message)
       THEN Commit(S) /\ UNCHANGED message_count
       ELSE /\ message_count' = message_count + 1
            /\ IF StartsWith(message, "/")
               THEN Commit(Log(Write(IF Lower(FirstToken(message)) = "/savelog"
                                     THEN Log(S, SaveLog(ok)) ELSE S,
                                     w, SysMsg(TcpCommandReply(S, message_count + 1, message, ok))),
                               {<<"console", CommandLog(username[w], message)>>}))
               ELSE Commit(TcpBroadcast([S EXCEPT !.messages = Append(@, ChatMsg(username[w], message))],
                                        w, ChatMsg(username[w], message), w, "loop"))
    /\ UNCHANGED <<variant, httpVars, is_running, log_data, ticks>>

\* readline() returns a line the peer sends now, nothing being buffered
TcpLine(w, data, ok) ==
    /\ variant = "tcp" /\ pc[w] = "loop" /\ sock[w] = "open" /\ is_running
    /\ inbox[w] = <<>>
    /\ TcpLineFrom(Loop, w, data, ok)

\* one line arrives in the receive loop
TcpRecvLine(w, data, ok) == lines_read < MaxLines /\ TcpLine(w, data, ok)

\* readline() returns b'' or raises on a lost connection: finally
TcpConnectionLost(w) ==
    /\ variant = "tcp" /\ pc[w] = "loop"
    /\ Commit(TcpFinally(Reset(Loop, w), w))
    /\ UNCHANGED loopFrame

\* the periodic thread wakes up and _save_logs_to_file builds log_data, the event
\* loop not running meanwhile
TcpPeriodicSave ==
    /\ variant = "tcp" /\ pc["periodic"] = "sleep" /\ is_running /\ ticks < MaxTicks
    /\ ticks' = ticks + 1
    /\ log_data' = [log_data EXCEPT !["periodic"] = TcpLogData(Loop, message_count)]
    /\ pc' = [pc EXCEPT !["periodic"] = "write"]
    /\ wrote' = {}
    /\ UNCHANGED <<variant, httpVars, client_ip, clients, client_info, ip_to_writer, messages, message_count,
                   is_running, sock, username, old_writer, bc, received, inbox, lines_read>>

\* The periodic thread runs beside the event loop and takes no lock, so the event
\* loop may run between any two of its reads of the server's state.
\* The thread wakes up and _save_logs_to_file collects online_users and
\* session_info from list(self.clients.items())
TcpPeriodicCollect ==
    /\ variant = "tcp" /\ pc["periodic"] = "sleep" /\ is_running /\ ticks < MaxTicks
    /\ ticks' = ticks + 1
    /\ log_data' = [log_data EXCEPT !["periodic"] =
                       [NoLog EXCEPT !.online_users = TcpLogData(Loop, message_count).online_users,
                                     !.session_info = TcpLogData(Loop, message_count).session_info]]
    /\ pc' = [pc EXCEPT !["periodic"] = "count"]
    /\ wrote' = {}
    /\ UNCHANGED <<variant, httpVars, client_ip, clients, client_info, ip_to_writer, messages, message_count,
                   is_running, sock, username, old_writer, bc, received, inbox, lines_read>>

\* log_data's len(self.messages), self.message_count and len(self.clients)
TcpPeriodicCount ==
    /\ variant = "tcp" /\ pc["periodic"] = "count"
    /\ log_data' = [log_data EXCEPT !["periodic"] =
                       [@ EXCEPT !.total_messages = TcpLogData(Loop, message_count).total_messages,
                                 !.message_count = TcpLogData(Loop, message_count).message_count,
                                 !.current_online_users =
                                     TcpLogData(Loop, message_count).current_online_users]]
    /\ pc' = [pc EXCEPT !["periodic"] = "copy"]
    /\ wrote' = {}
    /\ UNCHANGED <<variant, httpVars, client_ip, clients, client_info, ip_to_writer, messages, message_count,
                   is_running, sock, username, old_writer, bc, received, inbox, lines_read, ticks>>

\* log_data's self.messages.copy()
TcpPeriodicCopy ==
    /\ variant = "tcp" /\ pc["periodic"] = "copy"
    /\ log_data' = [log_data EXCEPT !["periodic"] =
                       [@ EXCEPT !.messages = TcpLogData(Loop, message_count).messages]]
    /\ pc' = [pc EXCEPT !["periodic"] = "write"]
    /\ wrote' = {}
    /\ UNCHANGED <<variant, httpVars, client_ip, clients, client_info, ip_to_writer, messages, message_count,
                   is_running, sock, username, old_writer, bc, received, inbox, lines_read, ticks>>

\* a periodic task that clears the memory whether or not the log was saved
TcpPeriodicWriteThenClear(ok) ==
    /\ variant = "tcp" /\ pc["periodic"] = "write"
    /\ pc' = [pc EXCEPT !["periodic"] = "clear"]
    /\ log_data' = [log_data EXCEPT !["periodic"] = IF ok THEN @ ELSE NoLog]
    /\ wrote' = SaveLog(ok) \cup (IF ok THEN {} ELSE {<<"console", PeriodicFailedText>>})
    /\ UNCHANGED <<variant, httpVars, client_ip, clients, client_info, ip_to_writer, messages, message_count,
                   is_running, sock, username, old_writer, bc, received, inbox, lines_read, ticks>>

\* json.dump to the log file succeeds, or raises and the tick is over
TcpPeriodicWrite(ok) ==
    /\ variant = "tcp" /\ pc["periodic"] = "write"
    /\ pc' = [pc EXCEPT !["periodic"] = IF ok THEN "clear" ELSE "sleep"]
    /\ log_data' = [log_data EXCEPT !["periodic"] = IF ok THEN @ ELSE NoLog]
    /\ wrote' = SaveLog(ok) \cup (IF ok THEN {} ELSE {<<"console", PeriodicFailedText>>})
    /\ UNCHANGED <<variant, httpVars, client_ip, clients, client_info, ip_to_writer, messages, message_count,
                   is_running, sock, username, old_writer, bc, received, inbox, lines_read, ticks>>

\* _clear_memory
TcpClearMemory ==
    /\ messages' = <<>>
    /\ message_count' = 0

\* the periodic thread clears the memory after a saved log
TcpPeriodicClear ==
    /\ variant = "tcp" /\ pc["periodic"] = "clear"
    /\ TcpClearMemory
    /\ pc' = [pc EXCEPT !["periodic"] = "sleep"]
    /\ log_data' = [log_data EXCEPT !["periodic"] = NoLog]
    /\ wrote' = {}
    /\ UNCHANGED <<variant, httpVars, client_ip, clients, client_info, ip_to_writer,
                   is_running, sock, username, old_writer, bc, received, inbox, lines_read, ticks>>

\* an operator command that saves the log and clears the memory like the periodic task
TcpConsoleSavelogAndClear(ok) ==
    /\ variant = "tcp" /\ pc["console"] = "idle" /\ is_running
    /\ wrote' = SaveLog(ok) \cup {<<"console", IF ok THEN SavedText ELSE SaveFailedText>>}
    /\ TcpClearMemory
    /\ UNCHANGED <<variant, httpVars, client_ip, clients, client_info, ip_to_writer,
                   is_running, pc, sock, username, old_writer, bc, received, inbox, log_data, lines_read, ticks>>

\* the operator types `savelog`: _save_logs_to_file runs inside the event loop
TcpConsoleSavelog(ok) ==
    /\ variant = "tcp" /\ pc["console"] = "idle" /\ is_running
    /\ wrote' = SaveLog(ok) \cup {<<"console", IF ok THEN SavedText ELSE SaveFailedText>>}
    /\ UNCHANGED <<variant, httpVars, client_ip, clients, client_info, ip_to_writer, messages,
                   message_count, is_running, pc, sock, username, old_writer, bc, received, inbox, log_data,
                   lines_read, ticks>>

\* what the operator may type as a message to all
ConsoleLines == {"hello"}

\* the operator types a message: it is appended to the history and broadcast to
\* every session; message_count goes up when the broadcast has returned
TcpConsoleMessage(text) ==
    /\ variant = "tcp" /\ pc["console"] = "idle" /\ is_running
    /\ lines_read < MaxLines
    /\ lines_read' = lines_read + 1
    /\ LET broadcast_msg == ChatMsg(ServerName, text)
           S == TcpBroadcast([Loop EXCEPT !.messages = Append(@, broadcast_msg),
                                          !.bc["console"].message = broadcast_msg],
                             "console", broadcast_msg, None, "said")
       IN /\ Commit(S)
          /\ message_count' = IF S.pc["console"] = "idle" THEN message_count + 1 ELSE message_count
    /\ UNCHANGED <<variant, httpVars, is_running, log_data, ticks>>

\* the operator's broadcast resumes after one `await writer.drain()`
TcpConsoleDrain(lost) ==
    /\ variant = "tcp" /\ pc["console"] = "bcast"
    /\ lost => sock[bc["console"].targets[bc["console"].i]] = "open"
    /\ LET S == TcpBroadcastStep(IF lost THEN Reset(Loop, bc["console"].targets[bc["console"].i])
                                 ELSE Loop, "console")
       IN /\ Commit(S)
          /\ message_count' = IF S.pc["console"] = "idle" THEN message_count + 1 ELSE message_count
    /\ UNCHANGED <<variant, httpVars, is_running, log_data, lines_read, ticks>>

\* the operator types quit, exit or stop: is_running is cleared and the shutdown
\* notice is broadcast
TcpConsoleQuit ==
    /\ variant = "tcp" /\ pc["console"] = "idle" /\ is_running
    /\ is_running' = FALSE
    /\ Commit(TcpBroadcast(Log(Loop, {<<"console", ShuttingDownLog>>}), "console",
                           SysMsg(ShutdownText), None, "shutdown"))
    /\ UNCHANGED <<variant, httpVars, message_count, log_data, lines_read, ticks>>

\* the steps of an accepted connection
TcpServe ==
    \/ \E w \in Writers, data \in HandshakeInputs : TcpHandshake(w, data)
    \/ \E w \in Writers : TcpHandshakeTimeout(w)
    \/ \E p \in Writers \cup {"console"}, lost \in BOOLEAN : TcpBroadcastDrain(p, lost)
    \/ \E w \in Writers, data \in ClientLines, ok \in BOOLEAN : TcpRecvLine(w, data, ok)
    \/ \E w \in Writers : TcpConnectionLost(w)

\* two connections, from the same host or from two hosts
NextTCPSessions ==
    \/ \E w \in {"w1", "w2"}, n \in 1..2 : n <= Ord(w) /\ TcpAccept(w, HostOf(n))
    \/ \E w \in Writers : TcpEvictDone(w)
    \/ TcpServe

\* the same with the periodic thread and the operator
NextTCP ==
    \/ NextTCPSessions
    \/ TcpPeriodicSave
    \/ \E ok \in BOOLEAN : TcpPeriodicWrite(ok)
    \/ TcpPeriodicClear
    \/ \E ok \in BOOLEAN : TcpConsoleSavelog(ok)

\* two connections, and the periodic thread with the event loop running between
\* the reads of its snapshot
NextTCPSnapshot ==
    \/ NextTCPSessions
    \/ TcpPeriodicCollect
    \/ TcpPeriodicCount
    \/ TcpPeriodicCopy
    \/ \E ok \in BOOLEAN : TcpPeriodicWrite(ok)
    \/ TcpPeriodicClear

\* two connections from two hosts, and the operator at the console
NextTCPConsole ==
    \/ \E w \in {"w1", "w2"} : TcpAccept(w, HostOf(Ord(w)))
    \/ \E w \in Writers, data \in HandshakeInputs : TcpHandshake(w, data)
    \/ \E w \in Writers : TcpHandshakeTimeout(w)
    \/ \E p \in Writers, lost \in BOOLEAN : TcpBroadcastDrain(p, lost)
    \/ \E w \in Writers, data \in ClientLines, ok \in BOOLEAN : TcpRecvLine(w, data, ok)
    \/ \E w \in Writers : TcpConnectionLost(w)
    \/ \E text \in ConsoleLines : TcpConsoleMessage(text)
    \/ \E lost \in BOOLEAN : TcpConsoleDrain(lost)
    \/ TcpConsoleQuit

\* Three connections from three hosts.
NextTCPRoom ==
    \/ \E w \in Writers : TcpAccept(w, HostOf(Ord(w)))
    \/ TcpServe

InitTCP == Init /\ variant = "tcp"

\* The room after three connections from three hosts have all asked for the name
\* "a" and the third has got its welcome message.
RoomOfThree ==
    /\ variant = "tcp"
    /\ clients = <<<<"w1", "a">>, <<"w2", "a_1">>, <<"w3", "a_2">>>>
    /\ username = [w \in Writers |-> Get(clients, w)]
    /\ client_ip = [w \in Writers |-> HostOf(Ord(w))]
    /\ client_info = [w \in Writers |-> [address |-> HostOf(Ord(w)) \o ":" \o PeerPort(w),
                                         ip |-> HostOf(Ord(w)), username |-> Get(clients, w)]]
    /\ ip_to_writer = [ip \in {HostOf(Ord(w)) : w \in Writers} |->
                         CHOOSE w \in Writers : HostOf(Ord(w)) = ip]
    /\ messages = [i \in 1..3 |-> SysMsg(JoinText(clients[i][2]))]
    /\ message_count = 0
    /\ is_running = TRUE
    /\ pc = [p \in Procs |-> IF p \in Writers THEN "loop"
                             ELSE IF p \in {"periodic", "cleanup"} THEN "sleep" ELSE "idle"]
    /\ sock = [w \in Writers |-> "open"]
    /\ wrote = {<<"w3", SysMsg(WelcomeText(3))>>}
    /\ old_writer = [w \in Writers |-> None]
    /\ inbox = [w \in Writers |-> <<>>]
    /\ bc = [p \in Writers \cup {"console"} |-> NoFrame]
    /\ log_data = [p \in Requests \cup {"periodic", "console"} |-> NoLog]
    /\ lines_read = 0
    /\ ticks = 0
    /\ username_to_session = <<>>
    /\ client_activity = <<>>
    /\ session_counter = 0
    /\ lock = None
    /\ now = 0
    /\ request = [t \in Requests |-> NoRequest]
    /\ agent_sid = [t \in Requests |-> None]

\* chat lines, and how many of them the three sessions send
ChatLines == {"one", "two"}
MaxChat == MaxLines + 1
TcpRecvChat(w, data) == lines_read < MaxChat /\ TcpLine(w, data, TRUE)

\* The three sessions chat, their peers may go away, and the lines written to the
\* third connection are kept in the order of the writes.
NextTCPChat ==
    \/ \E w \in Writers, data \in ChatLines : TcpRecvChat(w, data)
    \/ \E p \in Writers, lost \in BOOLEAN : TcpBroadcastDrain(p, lost)
    \/ \E w \in Writers : TcpConnectionLost(w)
\* data_received: a line of the peer reaches the StreamReader while the handler is
\* suspended in a drain() of the broadcast of its last chat line
TcpDataReceived(w, data) ==
    /\ variant = "tcp" /\ pc[w] = "bcast" /\ bc[w].after = "loop" /\ sock[w] = "open"
    /\ inbox[w] = <<>>
    /\ inbox' = [inbox EXCEPT ![w] = Append(@, data)]
    /\ wrote' = {}
    /\ UNCHANGED <<variant, httpVars, clients, client_info, ip_to_writer, messages, message_count,
                   is_running, pc, sock, username, client_ip, old_writer, bc, received, log_data,
                   lines_read, ticks>>

\* readline() returns the line the StreamReader holds, also after the server has
\* closed the transport (the end of stream is read after the buffered lines)
TcpRecvBuffered(w) ==
    /\ variant = "tcp" /\ pc[w] = "loop" /\ sock[w] \in {"open", "closed"} /\ is_running
    /\ inbox[w] # <<>> /\ lines_read < MaxChat
    /\ TcpLineFrom([Loop EXCEPT !.inbox[w] = Tail(@)], w, Head(inbox[w]), TRUE)

\* two sessions join from two hosts, the first one chats, and a third connection
\* arrives from the first host; a line may reach the first handler while it is busy
NextTCPBuffered ==
    \/ \E w \in Writers : TcpAccept(w, IF w = "w2" THEN HostOf(2) ELSE HostOf(1))
    \/ \E w \in Writers : TcpEvictDone(w)
    \/ \E w \in Writers : TcpHandshake(w, "a")
    \/ \E p \in Writers : TcpBroadcastDrain(p, FALSE)
    \/ \E data \in ChatLines : TcpRecvChat("w1", data)
    \/ TcpDataReceived("w1", "two")
    \/ \E w \in Writers : TcpRecvBuffered(w)
    \/ \E w \in Writers : TcpConnectionLost(w)
SpecTCPBuffered == InitTCP /\ [][NextTCPBuffered]_vars
InitTCPChat == RoomOfThree /\ received = [w \in {"w3"} |-> <<>>]
SpecTCPChat == InitTCPChat /\ [][NextTCPChat]_vars
SpecTCP == InitTCP /\ [][NextTCP]_vars
SpecTCPRoom == InitTCP /\ [][NextTCPRoom]_vars
SpecTCPSnapshot == InitTCP /\ [][NextTCPSnapshot]_vars
SpecTCPConsole == InitTCP /\ [][NextTCPConsole]_vars

\* ================================================================ WebSocket server
\* the text lines the WebSocket server sends (time stamps left out)
WsSys(text) == "[system] " \o text
WsChat(user, text) == "[] " \o user \o ": " \o text
WsHelpText == "commands: /help, /online, /ping, /stats"

\* first messages a WebSocket connection may send as its name
WsHandshakeInputs == {"a", "a_1", "", " GET / HTTP/1.1"}

\* what follows a broadcast() call in its caller, up to the caller's next suspension
WsResume(S, p, after) ==
    CASE after = "welcome" ->
           [Write(S, p, WsSys(WelcomeText(Len(S.clients)))) EXCEPT !.pc[p] = "loop", !.bc[p] = NoFrame]
      [] after = "loop" -> [S EXCEPT !.pc[p] = "loop", !.bc[p] = NoFrame]
      [] after = "close" -> [S EXCEPT !.pc[p] = "done", !.bc[p] = NoFrame]
      [] OTHER -> [S EXCEPT !.pc[p] = "idle", !.bc[p] = NoFrame]

\* client.send(message) for the keys from position j on that are not `exclude`
RECURSIVE WsSendAll(_, _, _, _, _)
WsSendAll(S, targets, j, message, exclude) ==
    IF j > Len(targets) THEN S
    ELSE WsSendAll(IF targets[j] # exclude THEN Write(S, targets[j], message) ELSE S,
                   targets, j + 1, message, exclude)

\* broadcast(message, exclude): up to `await asyncio.gather(*tasks)`; creating the
\* send coroutines never raises, so failed_clients stays empty
WsBroadcast(S, p, message, exclude, after) ==
    LET targets == Keys(S.clients)
    IN IF Len(S.clients) = 0 \/ NextTarget(targets, 0, exclude) = 0 THEN WsResume(S, p, after)
       ELSE [WsSendAll(S, targets, 1, message, exclude) EXCEPT
               !.bc[p] = [message |-> message, targets |-> targets, exclude |-> exclude,
                          i |-> 0, failed |-> <<>>, after |-> after],
               !.pc[p] = "gather"]

\* a connection is accepted and handle_client runs to `await websocket.recv()`
WsAccept(w) ==
    /\ variant = "ws" /\ pc[w] = "idle" /\ NextWriter(w)
    /\ Commit([Loop EXCEPT !.sock[w] = "open",
                           !.client_info = FPut(@, w, [address |-> HostOf(Ord(w)) \o ":" \o PeerPort(w)]),
                           !.pc[w] = "handshake"])
    /\ UNCHANGED loopFrame

\* the first message arrives
WsHandshake(w, data) ==
    /\ variant = "ws" /\ pc[w] = "handshake" /\ sock[w] = "open"
    /\ LET name == Strip(data) IN
       IF name = ""
       THEN Commit([Close(Loop, w) EXCEPT !.pc[w] = "done"])
       ELSE LET resolved == ResolveName(name, ValueSet(clients))
                S == [Loop EXCEPT !.clients = Put(@, w, resolved),
                                  !.client_info = FPut(@, w, [address |-> client_info[w].address,
                                                              username |-> resolved]),
                                  !.username[w] = resolved]
            IN Commit(WsBroadcast(Log(S, NameLog(name, resolved)), w,
                                  WsSys(JoinText(resolved)), w, "welcome"))
    /\ UNCHANGED loopFrame

\* no first message within 30 s, or the peer closes first
WsHandshakeTimeout(w) ==
    /\ variant = "ws" /\ pc[w] = "handshake"
    /\ Commit([Close(Loop, w) EXCEPT !.pc[w] = "done"])
    /\ UNCHANGED loopFrame

\* the warning broadcast() logs for a send that raised
SendErrorLog == "error while broadcasting"

\* asyncio.gather returns; lost: the recipient whose send() raised because its peer
\* went away meanwhile, or None.  The results are only logged.
WsGatherDone(p, lost) ==
    /\ variant = "ws" /\ pc[p] = "gather"
    /\ lost # None => /\ \E j \in 1..Len(bc[p].targets) : bc[p].targets[j] = lost
                      /\ lost # bc[p].exclude /\ sock[lost] = "open"
    /\ Commit(WsResume(IF lost # None THEN Log(Reset(Loop, lost), {<<"console", SendErrorLog>>})
                       ELSE Loop, p, bc[p].after))
    /\ UNCHANGED loopFrame

\* handle_command's response text
WsCommandReply(S, count, command) ==
    LET cmd == Lower(FirstToken(command)) IN
    CASE cmd = "/help" -> WsHelpText
      [] cmd = "/online" -> OnlineText(S.clients)
      [] cmd = "/ping" -> PongText
      [] cmd = "/stats" -> StatsText(count, Len(S.clients))
      [] OTHER -> UnknownText(cmd)

\* one message arrives in the receive loop
WsRecvLine(w, data) ==
    /\ variant = "ws" /\ pc[w] = "loop" /\ sock[w] = "open"
    /\ lines_read < MaxLines
    /\ lines_read' = lines_read + 1
    /\ LET message == Strip(data) IN
       IF message = ""
       THEN /\ wrote' = {}
            /\ UNCHANGED <<clients, client_info, ip_to_writer, messages, pc, sock,
                           username, client_ip, old_writer, bc, received, inbox, message_count>>
       ELSE /\ message_count' = message_count + 1
            /\ IF StartsWith(message, "/")
               THEN Commit(Write(Loop, w, WsSys(WsCommandReply(Loop, message_count + 1, message))))
               ELSE Commit(WsBroadcast(Loop, w, WsChat(username[w], message), w, "loop"))
    /\ UNCHANGED <<variant, httpVars, is_running, log_data, ticks>>

\* the connection is closed: the receive loop ends or raises, then the finally block
WsConnectionLost(w) ==
    /\ variant = "ws" /\ pc[w] = "loop"
    /\ LET S == Reset(Loop, w) IN
       IF Has(clients, w)
       THEN Commit(WsBroadcast([S EXCEPT !.clients = Del(@, w), !.client_info = FDel(@, w)],
                               w, WsSys(LeaveText(Get(clients, w))), None, "close"))
       ELSE Commit(WsResume(S, w, "close"))
    /\ UNCHANGED loopFrame

NextWS ==
    \/ \E w \in Writers : WsAccept(w)
    \/ \E w \in Writers, data \in WsHandshakeInputs : WsHandshake(w, data)
    \/ \E w \in Writers : WsHandshakeTimeout(w)
    \/ \E p \in Writers : WsGatherDone(p, None)
    \/ \E w \in Writers, data \in ClientLines : WsRecvLine(w, data)
    \/ \E w \in Writers : WsConnectionLost(w)

\* the same with peers that go away while a broadcast is sending to them
NextWSLossy ==
    \/ NextWS
    \/ \E p, lost \in Writers : WsGatherDone(p, lost)

InitWS == Init /\ variant = "ws"
SpecWS == InitWS /\ [][NextWS]_vars
SpecWSLossy == InitWS /\ [][NextWSLossy]_vars

\* ================================================================ HTTP server
\* self.session_timeout, in seconds
SessionTimeout == 300
\* the instants the clock is looked at
Times == {0, 300, 301}
\* POST /join: the `username` of the query string ("" when it has none) and the
\* `username` of the JSON body (None when it has none)
HttpJoinInputs == {<<"a", None>>, <<"", "">>}
\* query.get('username', [''])[0] or data.get('username', 'Anonymous')
JoinName(query, body) ==
    IF query # "" THEN query ELSE IF body = None THEN "Anonymous" ELSE body
\* a session id made of the time stamp alone
SessionIdByTime(counter, time) == "session_" \o ToString(time)
\* f"session_{self.session_counter}_{datetime.now().timestamp()}"
SessionId(counter, time) == "session_" \o ToString(counter) \o "_" \o ToString(time)
InvalidSessionText == "invalid session id, it may have timed out"
\* create_session's warning when the name belongs to a live session
ReloginLog(name) == "user " \o name \o " logs in again, old session dropped"
\* remove_session's log line, written before it returns True
LeftLog(name, remaining) == name \o " left the room | remaining: " \o ToString(remaining)
ExpiredText == "session expired, log in again"

\* a removal that leaves the name bound in username_to_session
HttpRemoveKeepingName(S, sid, text) ==
    [S EXCEPT !.clients = Del(@, sid),
              !.client_activity = FDel(@, sid),
              !.messages = Append(@, SysMsg(text))]

\* a removal that leaves the session's entry in client_activity behind
HttpRemoveKeepingActivity(S, sid, text) ==
    LET name == Get(S.clients, sid) IN
    [S EXCEPT !.clients = Del(@, sid),
              !.username_to_session =
                  IF name \in DOMAIN @ /\ @[name] = sid THEN FDel(@, name) ELSE @,
              !.messages = Append(@, SysMsg(text))]
\* a removal that puts its message at the head of the history
HttpRemoveMessageFirst(S, sid, text) ==
    LET name == Get(S.clients, sid) IN
    [S EXCEPT !.clients = Del(@, sid),
              !.username_to_session =
                  IF name \in DOMAIN @ /\ @[name] = sid THEN FDel(@, name) ELSE @,
              !.client_activity = FDel(@, sid),
              !.messages = <<SysMsg(text)>> \o @]
\* remove_session's and the sweeper's removal of a live session, with its message
HttpRemove(S, sid, text) ==
    LET name == Get(S.clients, sid) IN
    [S EXCEPT !.clients = Del(@, sid),
              !.username_to_session =
                  IF name \in DOMAIN @ /\ @[name] = sid THEN FDel(@, name) ELSE @,
              !.client_activity = FDel(@, sid),
              !.messages = Append(@, SysMsg(text))]

\* the shared dicts and the history, as one record
Registry == [clients |-> clients, username_to_session |-> username_to_session,
             client_activity |-> client_activity, messages |-> messages]
CommitRegistry(S) ==
    /\ clients' = S.clients
    /\ username_to_session' = S.username_to_session
    /\ client_activity' = S.client_activity
    /\ messages' = S.messages

\* a sweep that evicts a session as soon as its silence reaches the timeout
RECURSIVE HttpSweepAtTimeout(_, _, _, _)
HttpSweepAtTimeout(S, sids, j, time) ==
    IF j > Len(sids) THEN S
    ELSE HttpSweepAtTimeout(IF time - client_activity[sids[j]] >= SessionTimeout /\ Has(S.clients, sids[j])
                            THEN HttpRemove(S, sids[j], TimeoutText(Get(S.clients, sids[j])))
                            ELSE S,
                            sids, j + 1, time)

\* _cleanup_inactive_sessions: the loop over the inactive sessions, from position j
\* of the key list taken at the start
RECURSIVE HttpSweep(_, _, _, _)
HttpSweep(S, sids, j, time) ==
    IF j > Len(sids) THEN S
    ELSE HttpSweep(IF time - client_activity[sids[j]] > SessionTimeout /\ Has(S.clients, sids[j])
                   THEN HttpRemove(S, sids[j], TimeoutText(Get(S.clients, sids[j])))
                   ELSE S,
                   sids, j + 1, time)

\* _save_logs_to_file's log_data (time stamps left out)
HttpLogData ==
    [total_messages |-> Len(messages),
     message_count |-> message_count,
     current_online_users |-> Len(clients),
     online_users |-> Values(clients),
     messages |-> messages,
     session_info |-> [i \in 1..Len(clients) |->
         [session_id |-> clients[i][1], username |-> clients[i][2],
          last_active |-> IF clients[i][1] \in DOMAIN client_activity
                          THEN client_activity[clients[i][1]] ELSE now]]]

\* handle_command's response text for the commands that take no snapshot
HttpCommandReply(count, command) ==
    LET cmd == Lower(FirstToken(command)) IN
    CASE cmd = "/help" -> HelpText
      [] cmd = "/online" -> OnlineText(clients)
      [] cmd = "/ping" -> PongText
      [] cmd = "/stats" -> StatsText(count, Len(clients))
      [] OTHER -> UnknownText(cmd)

\* POST /join: create_session, under the lock
HttpJoin(t, name) ==
    /\ variant = "http" /\ pc[t] = "idle" /\ lock = None
    /\ agent_sid[t] = None
    /\ LET requested == name
           relogin == /\ requested \in DOMAIN username_to_session
                      /\ Has(clients, username_to_session[requested])
           old_session_id == username_to_session[requested]
           kept == IF relogin THEN Del(clients, old_session_id) ELSE clients
           active == IF relogin THEN FDel(client_activity, old_session_id) ELSE client_activity
           sid == SessionId(session_counter + 1, now)
           resolved == ResolveName(requested, ValueSet(kept))
       IN /\ clients' = Put(kept, sid, resolved)
          /\ username_to_session' = FPut(username_to_session, resolved, sid)
          /\ client_activity' = FPut(active, sid, now)
          /\ messages' = Append(messages, SysMsg(JoinText(resolved)))
          /\ request' = [request EXCEPT ![t] = [op |-> "join", session_id |-> sid, username |-> resolved]]
          /\ wrote' = (IF relogin THEN {<<"console", ReloginLog(requested)>>} ELSE {})
                          \cup NameLog(requested, resolved)
    /\ session_counter' = session_counter + 1
    /\ pc' = [pc EXCEPT ![t] = "reply"]
    /\ UNCHANGED <<variant, connVars, message_count, is_running, log_data, lines_read, ticks, lock,
                   now, agent_sid>>

\* POST /join: the response, with len(chat_server.clients) read without the lock
HttpJoinReply(t) ==
    /\ variant = "http" /\ pc[t] = "reply"
    /\ wrote' = {<<t, [success |-> TRUE, session_id |-> request[t].session_id,
                       username |-> request[t].username, online_count |-> Len(clients)]>>}
    /\ pc' = [pc EXCEPT ![t] = "idle"]
    /\ agent_sid' = [agent_sid EXCEPT ![t] = request[t].session_id]
    /\ request' = [request EXCEPT ![t] = NoRequest]
    /\ UNCHANGED <<variant, connVars, clients, messages, message_count, is_running, log_data,
                   lines_read, ticks, username_to_session, client_activity, session_counter, lock, now>>

\* messages a session may post
HttpLines == {"hi", "/savelog"}

\* a send_message that stamps the activity of the id before it looks the id up
HttpMessageStamping(t, sid, message) ==
    /\ variant = "http" /\ pc[t] = "idle" /\ lock = None
    /\ sid # None /\ ~Has(clients, sid)
    /\ lines_read < MaxLines
    /\ lines_read' = lines_read + 1
    /\ client_activity' = FPut(client_activity, sid, now)
    /\ wrote' = {<<t, [error |-> InvalidSessionText]>>}
    /\ UNCHANGED <<variant, connVars, clients, messages, message_count, lock, pc, request, is_running,
                   log_data, ticks, username_to_session, session_counter, now, agent_sid>>

\* POST /message: send_message, under the lock; `/savelog` calls _save_logs_to_file
\* with the lock still held
HttpMessage(t, sid, message) ==
    /\ variant = "http" /\ pc[t] = "idle" /\ lock = None
    /\ sid # None
    /\ lines_read < MaxLines
    /\ lines_read' = lines_read + 1
    /\ IF ~Has(clients, sid)
       THEN /\ wrote' = {<<t, [error |-> InvalidSessionText]>>}
            /\ UNCHANGED <<clients, client_activity, messages, message_count, lock, pc, request>>
       ELSE /\ client_activity' = FPut(client_activity, sid, now)
            /\ clients' = clients
            /\ IF StartsWith(message, "/")
               THEN IF Lower(FirstToken(message)) = "/savelog"
                    THEN /\ lock' = t
                         /\ pc' = [pc EXCEPT ![t] = "save_lock"]
                         /\ request' = [request EXCEPT ![t] = [op |-> "savelog"]]
                         /\ wrote' = {}
                         /\ UNCHANGED <<messages, message_count>>
                    ELSE /\ messages' = Append(messages, SysMsg(HttpCommandReply(message_count, message)))
                         /\ wrote' = {<<t, [success |-> TRUE,
                                            message |-> SysMsg(HttpCommandReply(message_count, message))]>>}
                         /\ UNCHANGED <<message_count, lock, pc, request>>
               ELSE /\ message_count' = message_count + 1
                    /\ messages' = Append(messages, ChatMsg(Get(clients, sid), message))
                    /\ wrote' = {<<t, [success |-> TRUE, message |-> ChatMsg(Get(clients, sid), message)]>>}
                    /\ UNCHANGED <<lock, pc, request>>
    /\ UNCHANGED <<variant, connVars, is_running, log_data, ticks, username_to_session,
                   session_counter, now, agent_sid>>

\* POST /leave: remove_session, under the lock
HttpLeave(t, sid) ==
    /\ variant = "http" /\ pc[t] = "idle" /\ lock = None
    /\ sid # None
    /\ IF Has(clients, sid)
       THEN /\ CommitRegistry(HttpRemove(Registry, sid, LeaveText(Get(clients, sid))))
            /\ wrote' = {<<"console", LeftLog(Get(clients, sid), Len(clients) - 1)>>,
                         <<t, [success |-> TRUE]>>}
       ELSE /\ UNCHANGED <<clients, username_to_session, client_activity, messages>>
            /\ wrote' = {<<t, [success |-> TRUE]>>}
    /\ UNCHANGED <<variant, connVars, message_count, is_running, log_data, lines_read, ticks,
                   session_counter, lock, now, pc, request, agent_sid>>

\* a poll that refreshes the activity of any id and goes on to get_messages
HttpPollUnchecked(t, sid, since) ==
    /\ variant = "http" /\ pc[t] = "idle" /\ lock = None
    /\ sid # None
    /\ client_activity' = FPut(client_activity, sid, now)
    /\ pc' = [pc EXCEPT ![t] = "get"]
    /\ request' = [request EXCEPT ![t] = [op |-> "poll", since |-> since]]
    /\ wrote' = {}
    /\ UNCHANGED <<variant, connVars, clients, messages, message_count, is_running, log_data,
                   lines_read, ticks, username_to_session, session_counter, lock, now, agent_sid>>

\* GET /messages: update_activity, under the lock
HttpPoll(t, sid, since) ==
    /\ variant = "http" /\ pc[t] = "idle" /\ lock = None
    /\ sid # None
    /\ IF Has(clients, sid)
       THEN /\ client_activity' = FPut(client_activity, sid, now)
            /\ pc' = [pc EXCEPT ![t] = "get"]
            /\ request' = [request EXCEPT ![t] = [op |-> "poll", since |-> since]]
            /\ wrote' = {}
       ELSE /\ wrote' = {<<t, [error |-> ExpiredText, session_expired |-> TRUE]>>}
            /\ UNCHANGED <<client_activity, pc, request>>
    /\ UNCHANGED <<variant, connVars, clients, messages, message_count, is_running, log_data,
                   lines_read, ticks, username_to_session, session_counter, lock, now, agent_sid>>

\* GET /messages without a session_id, or with an empty one: `if session_id and ...`
\* skips update_activity and the handler goes on to get_messages
HttpPollNoSession(t, since) ==
    /\ variant = "http" /\ pc[t] = "idle"
    /\ pc' = [pc EXCEPT ![t] = "get"]
    /\ request' = [request EXCEPT ![t] = [op |-> "poll", since |-> since]]
    /\ wrote' = {}
    /\ UNCHANGED <<variant, connVars, clients, messages, message_count, is_running, log_data,
                   lines_read, ticks, username_to_session, client_activity, session_counter, lock,
                   now, agent_sid>>

\* self.messages[since:]
Slice(seq, since) == SubSeq(seq, since + 1, Len(seq))

\* GET /messages: get_messages, under the lock
HttpPollGet(t) ==
    /\ variant = "http" /\ pc[t] = "get" /\ lock = None
    /\ request' = [request EXCEPT ![t] = [op |-> "poll", since |-> request[t].since,
                                            messages |-> Slice(messages, request[t].since)]]
    /\ pc' = [pc EXCEPT ![t] = "total"]
    /\ wrote' = {}
    /\ UNCHANGED <<variant, connVars, clients, messages, message_count, is_running, log_data,
                   lines_read, ticks, username_to_session, client_activity, session_counter, lock,
                   now, agent_sid>>

\* GET /messages: the response, with len(chat_server.messages) read without the lock
HttpPollReply(t) ==
    /\ variant = "http" /\ pc[t] = "total"
    /\ LET response == [success |-> TRUE, messages |-> request[t].messages, total |-> Len(messages)] IN
       /\ wrote' = {<<t, response>>}
       /\ received' = IF t \in DOMAIN received THEN [received EXCEPT ![t] = Append(@, response)]
                      ELSE received
    /\ pc' = [pc EXCEPT ![t] = "idle"]
    /\ request' = [request EXCEPT ![t] = NoRequest]
    /\ UNCHANGED <<variant, client_ip, client_info, ip_to_writer, sock, username, old_writer, bc,
                   inbox, clients, messages, message_count, is_running, log_data,
                   lines_read, ticks, username_to_session, client_activity, session_counter, lock,
                   now, agent_sid>>

\* the `since` of a user agent that follows the history: the total of the last
\* response it got, 0 before the first one
Cursor(t) == IF received[t] = <<>> THEN 0 ELSE received[t][Len(received[t])].total
\* the user agent polls again from where its last response ended
MaxPolls == MaxTicks + 1
HttpFollow(t) == Len(received[t]) < MaxPolls /\ HttpPoll(t, agent_sid[t], Cursor(t))

\* time passes
HttpClock(time) ==
    /\ variant = "http" /\ time > now
    /\ now' = time
    /\ wrote' = {}
    /\ UNCHANGED <<variant, connVars, clients, messages, message_count, is_running, pc, log_data,
                   lines_read, ticks, username_to_session, client_activity, session_counter, lock,
                   request, agent_sid>>

\* the sweeper wakes up: one pass of _cleanup_inactive_sessions, under the lock.
\* `while self.is_running` was tested before the wait and is tested again only
\* after the pass.
HttpCleanup ==
    /\ variant = "http" /\ pc["cleanup"] = "sleep" /\ lock = None
    /\ CommitRegistry(HttpSweep(Registry, Keys(clients), 1, now))
    /\ pc' = [pc EXCEPT !["cleanup"] = IF is_running THEN "sleep" ELSE "done"]
    /\ wrote' = {}
    /\ UNCHANGED <<variant, connVars, message_count, is_running, log_data, lines_read, ticks,
                   session_counter, lock, now, request, agent_sid>>

\* the periodic thread wakes up and calls _save_logs_to_file
HttpPeriodicWake ==
    /\ variant = "http" /\ pc["periodic"] = "sleep" /\ is_running /\ ticks < MaxTicks
    /\ ticks' = ticks + 1
    /\ pc' = [pc EXCEPT !["periodic"] = "save_lock"]
    /\ wrote' = {}
    /\ UNCHANGED <<variant, httpVars, connVars, clients, messages, message_count, is_running,
                   log_data, lines_read>>

\* the periodic thread wakes up after the flag was cleared: `if not self.is_running: break`
HttpPeriodicStop ==
    /\ variant = "http" /\ pc["periodic"] = "sleep" /\ ~is_running
    /\ pc' = [pc EXCEPT !["periodic"] = "done"]
    /\ wrote' = {}
    /\ UNCHANGED <<variant, httpVars, connVars, clients, messages, message_count, is_running,
                   log_data, lines_read, ticks>>

\* the operator types `quit`, `exit` or `stop`: server_console clears the flag and leaves
HttpConsoleQuit ==
    /\ variant = "http" /\ pc["console"] = "idle" /\ is_running
    /\ is_running' = FALSE
    /\ pc' = [pc EXCEPT !["console"] = "done"]
    /\ wrote' = {<<"console", ShuttingDownLog>>}
    /\ UNCHANGED <<variant, httpVars, connVars, clients, messages, message_count, log_data,
                   lines_read, ticks>>

\* the operator types `savelog`: server_console calls _save_logs_to_file
HttpConsoleSavelog ==
    /\ variant = "http" /\ pc["console"] = "idle" /\ is_running
    /\ pc' = [pc EXCEPT !["console"] = "save_lock"]
    /\ wrote' = {}
    /\ UNCHANGED <<variant, httpVars, connVars, clients, messages, message_count, is_running,
                   log_data, lines_read, ticks>>

\* _save_logs_to_file: `with self.lock:` is entered and log_data is built
HttpSaveSnapshot(p) ==
    /\ variant = "http" /\ pc[p] = "save_lock" /\ lock = None
    /\ log_data' = [log_data EXCEPT ![p] = HttpLogData]
    /\ pc' = [pc EXCEPT ![p] = "write"]
    /\ wrote' = {}
    /\ UNCHANGED <<variant, httpVars, connVars, clients, messages, message_count, is_running,
                   lines_read, ticks>>

\* _save_logs_to_file: json.dump succeeds or raises, and the caller goes on: the
\* periodic thread to _clear_memory or to sleep, the console to its prompt,
\* send_message to the response of handle_command
HttpSaveWrite(p, ok) ==
    /\ variant = "http" /\ pc[p] = "write"
    /\ log_data' = [log_data EXCEPT ![p] = IF p = "periodic" /\ ok THEN @ ELSE NoLog]
    /\ IF p = "periodic"
       THEN /\ pc' = [pc EXCEPT ![p] = IF ok THEN "clear_lock" ELSE "sleep"]
            /\ wrote' = SaveLog(ok) \cup (IF ok THEN {} ELSE {<<"console", PeriodicFailedText>>})
            /\ UNCHANGED <<messages, lock, request>>
       ELSE IF p = "console"
       THEN /\ pc' = [pc EXCEPT ![p] = "idle"]
            /\ wrote' = SaveLog(ok) \cup {<<p, IF ok THEN SavedText ELSE SaveFailedText>>}
            /\ UNCHANGED <<messages, lock, request>>
       ELSE /\ pc' = [pc EXCEPT ![p] = "idle"]
            /\ messages' = Append(messages, SysMsg(IF ok THEN SavedText ELSE SaveFailedText))
            /\ wrote' = SaveLog(ok) \cup
                        {<<p, [success |-> TRUE,
                               message |-> SysMsg(IF ok THEN SavedText ELSE SaveFailedText)]>>}
            /\ lock' = None
            /\ request' = [request EXCEPT ![p] = NoRequest]
    /\ UNCHANGED <<variant, connVars, clients, message_count, is_running, lines_read, ticks,
                   username_to_session, client_activity, session_counter, now, agent_sid>>

\* _clear_memory, under the lock
HttpPeriodicClear ==
    /\ variant = "http" /\ pc["periodic"] = "clear_lock" /\ lock = None
    /\ messages' = <<>>
    /\ message_count' = 0
    /\ pc' = [pc EXCEPT !["periodic"] = "sleep"]
    /\ log_data' = [log_data EXCEPT !["periodic"] = NoLog]
    /\ wrote' = {}
    /\ UNCHANGED <<variant, httpVars, connVars, clients, is_running, lines_read, ticks>>

\* the requests of the user agents, each with the session id it was given
HttpRequests(T) ==
    \/ \E t \in T, in \in HttpJoinInputs : HttpJoin(t, JoinName(in[1], in[2]))
    \/ \E t \in Requests : HttpJoinReply(t)
    \/ \E t \in Requests, message \in HttpLines : HttpMessage(t, agent_sid[t], message)
    \/ \E t \in Requests : HttpLeave(t, agent_sid[t])

HttpPolling ==
    \/ \E t \in Requests, since \in 0..1 : HttpPoll(t, agent_sid[t], since)
    \/ \E t \in Requests : HttpPollGet(t)
    \/ \E t \in Requests : HttpPollReply(t)

HttpSweeper ==
    \/ \E time \in Times : HttpClock(time)
    \/ HttpCleanup

HttpSaving ==
    \/ HttpPeriodicWake
    \/ HttpConsoleSavelog
    \/ \E p \in Requests \cup {"periodic", "console"} : HttpSaveSnapshot(p)
    \/ \E p \in Requests \cup {"periodic", "console"}, ok \in BOOLEAN : HttpSaveWrite(p, ok)
    \/ HttpPeriodicClear

\* two user agents, and the sweeper
NextHTTP == HttpRequests(Requests) \/ HttpPolling \/ HttpSweeper
\* one user agent, the periodic thread and the operator
NextHTTPSave == HttpRequests({"t1"}) \/ HttpSaving

\* two user agents, the periodic thread and the operator
NextHTTPCompacting == HttpRequests(Requests) \/ HttpSaving

\* a command that only the user agent t posts: handle_command answers it with the
\* unknown-command text, which repeats the command
OwnCommand(t) == "/" \o t
HttpCommands == \E t \in Requests : HttpMessage(t, agent_sid[t], OwnCommand(t))
\* the HTTP server with its user agents joining, leaving, posting lines and
\* commands, and polling
NextHTTPCommands == HttpRequests(Requests) \/ HttpPolling \/ HttpCommands

\* one user agent, the sweeper, the periodic thread and the operator, who may quit
NextHTTPShutdown ==
    \/ HttpRequests({"t1"}) \/ HttpSweeper \/ HttpSaving \/ HttpConsoleQuit \/ HttpPeriodicStop

\* one user agent that follows the history with its polls, the periodic thread
\* and the operator
NextHTTPFollow ==
    \/ HttpRequests({"t1"}) \/ HttpSaving
    \/ HttpFollow("t1") \/ HttpPollGet("t1") \/ HttpPollReply("t1")

\* two user agents, and requests of agents that have not joined
NextHTTPOpen ==
    \/ HttpRequests(Requests) \/ HttpPolling
    \/ \E t \in Requests, since \in 0..1 : agent_sid[t] = None /\ HttpPollNoSession(t, since)

InitHTTP == Init /\ variant = "http"
SpecHTTPOpen == InitHTTP /\ [][NextHTTPOpen]_vars
InitHTTPFollow == Constructed /\ variant = "http" /\ received = [t \in {"t1"} |-> <<>>]
SpecHTTPFollow == InitHTTPFollow /\ [][NextHTTPFollow]_vars
SpecHTTPShutdown == InitHTTP /\ [][NextHTTPShutdown]_vars
SpecHTTPCommands == InitHTTP /\ [][NextHTTPCommands]_vars
SpecHTTP == InitHTTP /\ [][NextHTTP]_vars
SpecHTTPSave == InitHTTP /\ [][NextHTTPSave]_vars
SpecHTTPCompacting == InitHTTP /\ [][NextHTTPCompacting]_vars

\* ================================================================ specifications
\* three connections from three hosts to the TCP or to the WebSocket server
NextRoom == NextTCPRoom \/ NextWS
InitRoom == Init /\ variant \in {"tcp", "ws"}
SpecRoom == InitRoom /\ [][NextRoom]_vars

\* the sessions of the three servers
Next == NextTCPSessions \/ NextWS \/ NextHTTP
Spec == Init /\ [][Next]_vars

\* the two servers that keep a history, with their snapshots and compaction
NextSave == NextTCP \/ NextHTTPSave
InitSave == Init /\ variant \in {"tcp", "http"}
SpecSave == InitSave /\ [][NextSave]_vars

\* ================================================================ properties
Count(seq, x) == Cardinality({i \in 1..Len(seq) : seq[i] = x})
Min(set) == IF set = {} THEN 0 ELSE CHOOSE x \in set : \A y \in set : x <= y

\* C1: in every server the names of the live sessions are pairwise distinct.
C1_DistinctNames ==
    \A i, j \in 1..Len(clients) : i # j => clients[i][2] # clients[j][2]
\* two sessions asked for the same name and are both live, one of them renamed
C1_Witness ==
    /\ variant \in {"tcp", "ws"}
    /\ \E v, w \in Writers :
           /\ Has(clients, v) /\ Get(clients, v) = "a"
           /\ Has(clients, w) /\ Get(clients, w) = "a_1" /\ pc[w] = "loop"

\* the host of a live TCP session
LiveIp(w) == client_info[w].ip

\* C2: in the TCP server no two entries of clients belong to connections from
\* the same peer IP address.
C2_OneSessionPerIp ==
    variant = "tcp" =>
        \A i, j \in 1..Len(clients) :
            i # j => LiveIp(clients[i][1]) # LiveIp(clients[j][1])

\* positions of a broadcast's key list that are not the excluded connection
Recipients(f) == {j \in 1..Len(f.targets) : f.targets[j] # f.exclude}
BcStart(p) == pc[p] # "bcast" /\ pc'[p] = "bcast"
\* the broadcast of p has moved in this step
FrameMoved(p) == bc'[p].i # bc[p].i \/ bc'[p].targets # bc[p].targets
BcNext(p) == pc[p] = "bcast" /\ pc'[p] = "bcast" /\ FrameMoved(p)
BcEnd(p) == pc[p] = "bcast" /\ pc'[p] # "bcast"
\* the recipient at position j is written the message in this step, or its transport is lost
Attempted(p, j) ==
    \/ <<bc'[p].targets[j], bc'[p].message>> \in wrote'
    \/ sock'[bc'[p].targets[j]] # "open"

\* C3: a TCP broadcast works on the sessions live at its start, visits every one
\* of them but the excluded in turn, writes the message to each or finds its
\* transport lost, goes on after a failed recipient, has removed every failed
\* recipient from clients when it ends, and always returns to its caller.
C3_BroadcastStep(p) ==
    /\ IF BcStart(p)
       THEN /\ bc'[p].targets = Keys(clients')
            /\ Recipients(bc'[p]) # {}
            /\ bc'[p].i = Min(Recipients(bc'[p]))
            /\ Attempted(p, bc'[p].i)
       ELSE TRUE
    /\ IF BcNext(p)
       THEN /\ bc'[p].targets = bc[p].targets /\ bc'[p].message = bc[p].message
            /\ bc'[p].exclude = bc[p].exclude
            /\ bc'[p].i = Min({j \in Recipients(bc[p]) : j > bc[p].i})
            /\ Attempted(p, bc'[p].i)
            /\ Range(bc[p].failed) \subseteq Range(bc'[p].failed)
            /\ sock'[bc[p].targets[bc[p].i]] # "open" => bc[p].targets[bc[p].i] \in Range(bc'[p].failed)
       ELSE TRUE
    /\ IF BcEnd(p)
       THEN /\ {j \in Recipients(bc[p]) : j > bc[p].i} = {}
            /\ \A r \in Range(bc[p].failed) : ~Has(clients', r)
            /\ sock'[bc[p].targets[bc[p].i]] # "open" => ~Has(clients', bc[p].targets[bc[p].i])
            /\ pc'[p] = (IF bc[p].after = "close" THEN "done" ELSE "loop")
       ELSE TRUE
C3_BroadcastReachesAll == [][\A p \in Writers : C3_BroadcastStep(p)]_vars
\* a broadcast has lost one recipient and has written the message to the next one
C3_Witness ==
    \E p \in Writers :
        /\ pc[p] = "bcast" /\ bc[p].exclude = p /\ Len(bc[p].failed) = 1
        /\ <<bc[p].targets[bc[p].i], bc[p].message>> \in wrote

\* the names and chat lines a connection may carry
OwnLines(name) ==
    CASE variant = "tcp" ->
           {ChatMsg(name, Strip(d)) : d \in ClientLines} \cup {SysMsg(JoinText(name))}
      [] variant = "ws" ->
           {WsChat(name, Strip(d)) : d \in ClientLines} \cup {WsSys(JoinText(name))}
      [] OTHER -> {}
\* C4: no step of a TCP or WebSocket broadcast writes the message to the
\* connection the broadcast excludes; no connection is written a chat line or
\* a join notice under its own name.
C4_Step(p) ==
    /\ IF pc'[p] \in {"bcast", "gather"} /\ FrameMoved(p)
       THEN <<bc'[p].exclude, bc'[p].message>> \notin wrote'
       ELSE TRUE
    /\ \A m \in OwnLines(username'[p]) : <<p, m>> \notin wrote'
C4_NeverToExcluded == [][\A p \in Writers : C4_Step(p)]_vars
\* a chat line is on its way to another session and not to its sender
C4_Witness ==
    \E p, r \in Writers :
        /\ pc[p] \in {"bcast", "gather"} /\ bc[p].exclude = p /\ bc[p].after = "loop"
        /\ r # p /\ <<r, bc[p].message>> \in wrote /\ <<p, bc[p].message>> \notin wrote

\* C5: the step of a TCP broadcast that drops a failed recipient X from clients
\* appends the system message "X left" to the history.
C5_EvictionStep(p, X) ==
    IF BcEnd(p) /\ Has(clients, X) /\ ~Has(clients', X)
    THEN /\ Len(messages') > Len(messages)
         /\ SysMsg(LeaveText(Get(clients, X))) \in
                Range(SubSeq(messages', Len(messages) + 1, Len(messages')))
    ELSE TRUE
C5_FailedDeliveryLeaves == [][\A p, X \in Writers : C5_EvictionStep(p, X)]_vars

\* sessions named n whose handler has appended its leave message or has returned
Gone(n) == {w \in Writers : username[w] = n /\ ~Has(clients, w) /\ pc[w] \in {"bcast", "done"}}
\* C6: with connections that end only by a lost transport, the history holds
\* exactly one "left" message for every session that has ended.
C6_ExactlyOneLeft ==
    (variant = "tcp" /\ ticks = 0) =>
        \A w \in Writers :
            (username[w] # None /\ ~Has(clients, w) /\ pc[w] = "done") =>
                Count(messages, SysMsg(LeaveText(username[w]))) = Cardinality(Gone(username[w]))

\* C7: in the HTTP server no thread waits for the lock it holds itself.
C7_LockIsReleased ==
    variant = "http" => \A t \in Requests : ~(lock = t /\ pc[t] = "save_lock")

\* the periodic thread's _clear_memory
ClearStep == pc["periodic"] \in {"clear", "clear_lock"} /\ pc'["periodic"] = "sleep"
\* C8: the history a compaction clears is the history its snapshot holds.
C8_CompactionAtomic ==
    [][IF ClearStep THEN messages = log_data["periodic"].messages ELSE TRUE]_vars

\* the periodic thread's write of the log file, as logged
PeriodicWriteStep == pc["periodic"] = "write" /\ pc'["periodic"] # "write"
\* C9: the periodic task goes on to clear the memory only after a write that
\* succeeded; a failed write leaves history and counter as they are and the
\* thread, still running, back at its sleep; the history shrinks and the counter
\* drops in no other step than the clear.
C9_Step ==
    /\ IF PeriodicWriteStep /\ <<"console", LogSavedText>> \in wrote'
       THEN pc'["periodic"] \in {"clear", "clear_lock"}
            /\ messages' = messages /\ message_count' = message_count
       ELSE TRUE
    /\ IF PeriodicWriteStep /\ <<"console", LogSavedText>> \notin wrote'
       THEN /\ <<"console", LogFailedText>> \in wrote'
            /\ pc'["periodic"] = "sleep" /\ is_running'
            /\ messages' = messages /\ message_count' = message_count
       ELSE TRUE
    /\ IF Len(messages') < Len(messages) \/ message_count' < message_count
       THEN ClearStep
       ELSE TRUE
C9_ClearOnlyAfterSave == [][C9_Step]_vars
\* a write has failed with messages in the history, and nothing was cleared
C9_Witness ==
    /\ <<"console", PeriodicFailedText>> \in wrote
    /\ pc["periodic"] = "sleep" /\ messages # <<>> /\ message_count > 0

\* the step in which a manual snapshot reports its result to the client or the operator
ManualSaveReply(who) ==
    \E text \in {SavedText, SaveFailedText} :
        IF who = "console" THEN <<who, text>> \in wrote' ELSE <<who, SysMsg(text)>> \in wrote'
\* the operator's snapshot being taken by the HTTP server
ConsoleSnapshotStep == pc["console"] = "save_lock" /\ pc'["console"] = "write"
\* C10 as claimed: a manual snapshot leaves history, counter and live sessions as they are.
C10_ManualSaveChangesNothing ==
    [][IF (\E who \in Writers \cup {"console"} : ManualSaveReply(who)) \/ ConsoleSnapshotStep
       THEN messages' = messages /\ message_count' = message_count /\ clients' = clients
       ELSE TRUE]_vars
\* C10: a manual snapshot leaves the history and the live sessions as they
\* are; the operator's command leaves the counter as it is, and the TCP
\* client line `/savelog` is counted like any other line: the counter goes up
\* by one and is never reset.
C10_Step ==
    /\ IF (\E who \in Writers \cup {"console"} : ManualSaveReply(who)) \/ ConsoleSnapshotStep
       THEN messages' = messages /\ clients' = clients
       ELSE TRUE
    /\ IF ManualSaveReply("console") \/ ConsoleSnapshotStep
       THEN message_count' = message_count
       ELSE TRUE
    /\ IF \E w \in Writers : ManualSaveReply(w)
       THEN message_count' = message_count + 1
       ELSE TRUE
C10_ManualSaveKeepsHistory == [][C10_Step]_vars
\* a client's /savelog was answered with a history and a counter to lose
C10_Witness ==
    \E w \in Writers :
        /\ <<w, SysMsg(SavedText)>> \in wrote
        /\ Has(clients, w) /\ messages # <<>> /\ message_count = 1

\* the response of POST /leave to the user agent t
LeaveReply(t) == <<t, [success |-> TRUE]>> \in wrote'
\* remove_session has returned True in this step
RemovedLog == \E name \in ValueSet(clients) : <<"console", LeftLog(name, Len(clients) - 1)>> \in wrote'
\* C11: remove_session of a live id returns True, drops the id from the three
\* maps and appends exactly one "left" message; of an id that is not live (left
\* before, swept, evicted by a re-login, or never issued) it returns False and
\* changes neither the maps nor the history; an id that is no longer live never
\* becomes live again.
C11_Step(t) ==
    /\ IF LeaveReply(t)
       THEN IF Has(clients, agent_sid[t])
            THEN /\ RemovedLog
                 /\ clients' = Del(clients, agent_sid[t])
                 /\ agent_sid[t] \notin DOMAIN client_activity'
                 /\ \A n \in DOMAIN username_to_session' : username_to_session'[n] # agent_sid[t]
                 /\ messages' = Append(messages, SysMsg(LeaveText(Get(clients, agent_sid[t]))))
            ELSE /\ ~RemovedLog
                 /\ UNCHANGED <<clients, client_activity, username_to_session, messages>>
       ELSE TRUE
    /\ IF agent_sid[t] # None /\ ~Has(clients, agent_sid[t])
       THEN ~Has(clients', agent_sid[t])
       ELSE TRUE
C11_RemoveIsIdempotent == [][\A t \in Requests : C11_Step(t)]_vars
\* the second /leave of a session has changed nothing: the history holds the one
\* "left" message of the first
C11_Witness ==
    \E t \in Requests :
        /\ agent_sid[t] \notin {None, ForgedId} /\ ~Has(clients, agent_sid[t])
        /\ wrote = {<<t, [success |-> TRUE]>>}
        /\ messages = <<SysMsg(JoinText("a")), SysMsg(LeaveText("a"))>>

\* the connection w becomes a live session in this step
Joins(w) == ~Has(clients, w) /\ Has(clients', w)
\* the name the handshake of this step asked for
Asked(w, n) ==
    \/ Get(clients', w) = n /\ \A o \in ValueSet(clients) \cup {n} : <<"console", RenamedLog(o, n)>> \notin wrote'
    \/ <<"console", RenamedLog(n, Get(clients', w))>> \in wrote'
\* n, n_1, n_2, ...
Numbered(n, i) == IF i = 0 THEN n ELSE n \o "_" \o ToString(i)
\* no session has ended so far
NoneRemoved == \A v \in Writers : username[v] # None => Has(clients, v)
\* C12: when the live sessions are k connections that were given n, n_1, ...,
\* n_(k-1) in this order and none has been removed, the next connection whose
\* handshake asks for n is given n_k and is added after them.
C12_Step(w) ==
    \A n \in {"a"} :
        IF /\ variant \in {"tcp", "ws"} /\ Joins(w) /\ Asked(w, n) /\ NoneRemoved
           /\ Values(clients) = [i \in 1..Len(clients) |-> Numbered(n, i - 1)]
        THEN clients' = Append(clients, <<w, Numbered(n, Len(clients))>>)
        ELSE TRUE
C12_NamesInOrder == [][\A w \in Writers : C12_Step(w)]_vars
\* three connections have asked for the name a, one after the other
C12_Witness ==
    /\ Values(clients) = <<"a", "a_1", "a_2">> /\ NoneRemoved
    /\ <<"console", RenamedLog("a", "a_2")>> \in wrote

\* create_session runs for the user agent t in this step
Creates(t) == variant = "http" /\ pc[t] = "idle" /\ pc'[t] = "reply"
\* the name the create_session of this step was called with
HttpAsked(t, n) ==
    \/ request'[t].username = n
       /\ \A o \in ValueSet(clients) \cup {n} : <<"console", RenamedLog(o, n)>> \notin wrote'
    \/ <<"console", RenamedLog(n, request'[t].username)>> \in wrote'
\* C13: when the live HTTP sessions are named n, n_1, ..., n_(k-1) in this
\* order, a create_session called with n keeps all of them live and adds the
\* new session under the name n_k.
C13_Step(t) ==
    \A n \in {"a"} :
        IF /\ Creates(t) /\ HttpAsked(t, n)
           /\ Values(clients) = [i \in 1..Len(clients) |-> Numbered(n, i - 1)]
        THEN clients' = Append(clients, <<request'[t].session_id, Numbered(n, Len(clients))>>)
        ELSE TRUE
C13_HttpNamesInOrder == [][\A t \in Requests : C13_Step(t)]_vars

\* handle_client starts for the connection w in this step
Arrives(w) == variant = "tcp" /\ pc[w] = "idle" /\ pc'[w] # "idle"
\* the peer address of w owns a live session when w arrives
OwnerLive(w) ==
    /\ client_ip'[w] \in DOMAIN ip_to_writer
    /\ Has(clients, ip_to_writer[client_ip'[w]])
\* C14: a TCP connection that arrives from an address owning a live session
\* closes the old session's transport at once and is itself not live while it
\* waits; when it goes on the old session is out of clients and client_info;
\* and in no state is it live together with the session it has evicted.
C14_Step(w) ==
    /\ IF Arrives(w) /\ OwnerLive(w)
       THEN /\ old_writer'[w] = ip_to_writer[client_ip'[w]]
            /\ pc'[w] = "evict_wait"
            /\ sock'[old_writer'[w]] = "closed"
       ELSE TRUE
    /\ IF old_writer'[w] # None
       THEN /\ sock'[old_writer'[w]] = "closed"
            /\ pc'[w] = "evict_wait" => ~Has(clients', w)
            /\ pc'[w] # "evict_wait" =>
                   ~Has(clients', old_writer'[w]) /\ old_writer'[w] \notin DOMAIN client_info'
            /\ ~(Has(clients', w) /\ Has(clients', old_writer'[w]))
       ELSE TRUE
Silent == {sid \in KeySet(clients) : now - client_activity[sid] > SessionTimeout}
\* C15: a pass of the sweeper evicts exactly the live sessions whose last
\* activity is older than the timeout: each of them leaves clients,
\* client_activity and username_to_session and gets one timeout message at
\* the end of the history; every other session stays as it is.
C15_Step ==
    IF HttpCleanup
    THEN /\ \A sid \in Silent :
                /\ ~Has(clients', sid)
                /\ sid \notin DOMAIN client_activity'
                /\ \A n \in DOMAIN username_to_session' : username_to_session'[n] # sid
                /\ Count(messages', SysMsg(TimeoutText(Get(clients, sid)))) =
                       Count(messages, SysMsg(TimeoutText(Get(clients, sid)))) + 1
         /\ \A sid \in KeySet(clients) \ Silent :
                /\ Has(clients', sid) /\ Get(clients', sid) = Get(clients, sid)
                /\ client_activity'[sid] = client_activity[sid]
                /\ username_to_session'[Get(clients, sid)] = sid
         /\ Len(messages') = Len(messages) + Cardinality(Silent)
         /\ SubSeq(messages', 1, Len(messages)) = messages
    ELSE TRUE
C15_SweepEvictsTheSilent == [][C15_Step]_vars
\* a sweep has evicted the silent session and kept the one that polled just before
C15_Witness ==
    /\ variant = "http" /\ now = 301 /\ Len(clients) = 1
    /\ client_activity[clients[1][1]] = 300
    /\ Len(messages) > 0 /\ messages[Len(messages)] = SysMsg(TimeoutText("a"))

\* the 401 response of GET /messages to the user agent t
Expired(t) == <<t, [error |-> ExpiredText, session_expired |-> TRUE]>> \in wrote'
\* C16: GET /messages with the id of a session that is not live is answered
\* 401 with session_expired, creates no activity entry and reads no message;
\* with a live id it sets the session's last activity to the present time and
\* answers with the history from index `since` on.
C16_Step(t) ==
    /\ IF Expired(t)
       THEN /\ ~Has(clients, agent_sid[t])
            /\ pc'[t] = "idle" /\ request'[t] = NoRequest
            /\ wrote' = {<<t, [error |-> ExpiredText, session_expired |-> TRUE]>>}
            /\ UNCHANGED <<clients, client_activity, username_to_session, messages>>
       ELSE TRUE
    /\ IF pc[t] = "idle" /\ pc'[t] = "get"
       THEN /\ Has(clients, agent_sid[t])
            /\ client_activity' = FPut(client_activity, agent_sid[t], now)
            /\ UNCHANGED <<clients, username_to_session, messages>>
       ELSE TRUE
    /\ IF pc[t] = "get" /\ pc'[t] # "get"
       THEN /\ pc'[t] = "total"
            /\ request'[t].messages = SubSeq(messages, request[t].since + 1, Len(messages))
       ELSE TRUE
    /\ IF pc[t] = "total" /\ pc'[t] # "total"
       THEN \E total \in 0..Len(messages) :
                <<t, [success |-> TRUE, messages |-> request[t].messages, total |-> total]>> \in wrote'
       ELSE TRUE
    /\ DOMAIN client_activity' \subseteq KeySet(clients')
C16_PollNeedsLiveSession == [][\A t \in Requests : C16_Step(t)]_vars
\* a poll with the id of a session that has ended was answered 401
C16_Witness ==
    \E t \in Requests :
        /\ agent_sid[t] \notin {None, ForgedId} /\ ~Has(clients, agent_sid[t])
        /\ wrote = {<<t, [error |-> ExpiredText, session_expired |-> TRUE]>>}
        /\ agent_sid[t] \notin DOMAIN client_activity

\* send_message runs for the user agent t in this step
Sends(t) ==
    /\ variant = "http" /\ lines_read' # lines_read
    /\ pc[t] = "idle" /\ (pc'[t] = "save_lock" \/ \E r \in wrote' : r[1] = t)
\* C17: send_message with the id of a session that is not live (left, swept,
\* evicted by a re-login, or never issued) returns the invalid-session error and
\* changes neither the history, the counter, client_activity, clients nor
\* username_to_session.
C17_Step(t) ==
    IF Sends(t) /\ ~Has(clients, agent_sid[t])
    THEN /\ wrote' = {<<t, [error |-> InvalidSessionText]>>}
         /\ pc'[t] = "idle" /\ lock' = lock
         /\ UNCHANGED <<messages, message_count, client_activity, clients, username_to_session>>
    ELSE TRUE
C17_DeadSessionSendsNothing == [][\A t \in Requests : C17_Step(t)]_vars
\* a session that was evicted by a re-login under its name has tried to send
C17_Witness ==
    \E t, u \in Requests :
        /\ agent_sid[t] \notin {None, ForgedId} /\ ~Has(clients, agent_sid[t])
        /\ Has(clients, agent_sid[u])
        /\ wrote = {<<t, [error |-> InvalidSessionText]>>}
        /\ messages = <<SysMsg(JoinText("a")), SysMsg(JoinText("a"))>>

\* the session ids the server has handed out or holds in one of its maps
KnownIds ==
    KeySet(clients) \cup DOMAIN client_activity
        \cup {username_to_session[n] : n \in DOMAIN username_to_session}
        \cup {agent_sid[u] : u \in Requests}
        \cup {request[u].session_id : u \in {v \in Requests : pc[v] = "reply"}}
\* C18: the id a create_session returns differs from every id returned before,
\* the ids of removed sessions included, and from every id in the maps.
C18_Step(t) ==
    IF Creates(t) THEN request'[t].session_id \notin KnownIds ELSE TRUE
C18_IdsNeverReused == [][\A t \in Requests : C18_Step(t)]_vars
\* after a compaction a second session was created at the time of the first, which has left
C18_Witness ==
    \E t, u \in Requests :
        /\ pc[t] = "reply" /\ agent_sid[u] \notin {None, ForgedId} /\ ~Has(clients, agent_sid[u])
        /\ request[t].session_id = SessionId(2, 0) /\ agent_sid[u] = SessionId(1, 0)
        /\ ticks = 1 /\ pc["periodic"] = "sleep" /\ messages = <<SysMsg(JoinText(request[t].username))>>

\* C19: every entry name -> id of username_to_session of the HTTP server names
\* a live session with that display name.
C19_NameIndexIsLive ==
    variant = "http" =>
        \A n \in DOMAIN username_to_session :
            /\ Has(clients, username_to_session[n])
            /\ Get(clients, username_to_session[n]) = n
\* a name was taken over by a re-login and its first holder has gone; the other
\* session has left
C19_Witness ==
    /\ variant = "http" /\ DOMAIN username_to_session = {"a"}
    /\ username_to_session["a"] = SessionId(2, 0) /\ session_counter = 2
    /\ Count(messages, SysMsg(JoinText("a"))) = 2

\* C20: no live session of any server has the empty display name, and no live
\* session of the TCP or the WebSocket server has a name that starts like an
\* HTTP request or status line.
C20_NoEmptyOrNoiseName ==
    \A i \in 1..Len(clients) :
        /\ clients[i][2] # ""
        /\ variant \in {"tcp", "ws"} => ~IsNoiseName(clients[i][2])

\* handle_command has run for the line `command` of the connection w in this step
Commands(w, command) ==
    /\ variant = "tcp" /\ pc[w] = "loop" /\ Has(clients, w) /\ lines_read' # lines_read
    /\ <<"console", CommandLog(Get(clients, w), command)>> \in wrote'
\* C21: the step of the TCP server that handles a line starting with "/" writes
\* one system message to the connection the line came from and to no other,
\* leaves the history as it is and starts no broadcast.
C21_Step(w) ==
    \A d \in ClientLines :
        IF Commands(w, Strip(d))
        THEN /\ \E text \in {TcpCommandReply(Loop, message_count', Strip(d), ok) : ok \in BOOLEAN} :
                    {r \in wrote' : r[1] \in Writers} = {<<w, SysMsg(text)>>}
             /\ messages' = messages
             /\ bc' = bc /\ pc' = pc /\ clients' = clients
        ELSE TRUE
C21_CommandReplyIsUnicast == [][\A w \in Writers : C21_Step(w)]_vars
\* /Online was answered to its sender with another session live
C21_Witness ==
    \E w, v \in Writers :
        /\ w # v /\ Has(clients, w) /\ Has(clients, v) /\ pc[v] = "loop"
        /\ <<w, SysMsg(OnlineText(clients))>> \in wrote
        /\ \A r \in wrote : r[1] \in {w, "console"}

\* the response of GET /messages
PollResponses == {r \in wrote : r[1] \in Requests /\ DOMAIN r[2] = {"success", "messages", "total"}}
\* C22: the messages a GET /messages returns to one user agent's session hold no
\* reply to a command that the other user agent's session posted.
C22_RepliesStayPrivate ==
    variant = "http" =>
        \A r \in PollResponses : \A t \in Requests \ {r[1]} : \A i \in DOMAIN r[2].messages :
            r[2].messages[i] # SysMsg(UnknownText(OwnCommand(t)))

\* the positions of x in the sequence seq
Pos(seq, x) == {i \in DOMAIN seq : seq[i] = x}
\* the history holds the chat messages at i and j, each of them once
ChatPair(i, j) ==
    /\ i < j
    /\ messages[i].type = "message" /\ messages[j].type = "message"
    /\ Pos(messages, messages[i]) = {i} /\ Pos(messages, messages[j]) = {j}
\* a watched connection that is still a live session
WatchedLive == {R \in DOMAIN received : Has(clients, R) /\ sock[R] = "open"}
\* C23: when one TCP session has sent the chat line m1 before the chat line m2 and
\* m2 has been written to a session that has been live all the time, then m1 was
\* written to that session before m2, whatever the other sessions sent in between.
C23_SenderOrderKept ==
    \A i, j \in DOMAIN messages :
        ChatPair(i, j) /\ messages[i].username = messages[j].username =>
            \A R \in WatchedLive : \A k \in Pos(received[R], messages[j]) :
                \E l \in Pos(received[R], messages[i]) : l < k
\* a live session has been sent two lines of one sender with the leave message
\* of another session between them
C23_Witness ==
    \E R \in WatchedLive : \E k, l, n \in DOMAIN received[R] :
        /\ k < l /\ l < n
        /\ received[R][k].type = "message" /\ received[R][n].type = "message"
        /\ received[R][l].type = "system"
        /\ received[R][k].username = received[R][n].username
        /\ received[R][k] # received[R][n]

\* C24: when the history holds the chat lines of two different TCP senders and
\* both have been written to a session that has been live all the time, they
\* were written to it in the order in which they stand in the history.
C24_HistoryOrderKept ==
    \A i, j \in DOMAIN messages :
        ChatPair(i, j) /\ messages[i].username # messages[j].username =>
            \A R \in WatchedLive :
                \A k \in Pos(received[R], messages[i]), l \in Pos(received[R], messages[j]) : k < l

\* broadcast() of the caller p returns in this step
WsBroadcastReturns(p) == variant = "ws" /\ pc[p] = "gather" /\ pc'[p] # "gather"
\* C25: when a WebSocket broadcast returns, every session it sent to has either
\* got the message or is gone from clients and from client_info: a session whose
\* send failed during the fan-out has been removed by the broadcast.
C25_Step(p) ==
    IF WsBroadcastReturns(p)
    THEN \A j \in Recipients(bc[p]) :
            LET r == bc[p].targets[j] IN
            \/ sock'[r] = "open"
            \/ ~Has(clients', r) /\ r \notin DOMAIN client_info'
    ELSE TRUE
C25_FailedSendEvicts == [][\A p \in Writers : C25_Step(p)]_vars

\* the lines written to connections (not to the console) in this step
Sent == {r \in wrote' : r[1] \in Writers}
\* the broadcast of w's join message is under way
JoinBroadcast(w) == pc[w] = "bcast" /\ bc[w].after = "welcome"
\* C26: the step that makes a TCP or HTTP session live appends one system message
\* "<name> joined" with the name the session was given, and nothing else, to the
\* history.  In TCP that step starts the broadcast of this message over the
\* sessions live at that time with the new one excluded; no step of the
\* broadcast writes it to the new session or appends to the history; and the
\* new session is written the welcome message when the broadcast is over.
C26_Step(w) ==
    /\ IF variant = "tcp" /\ Joins(w)
       THEN LET join == SysMsg(JoinText(Get(clients', w)))
                welcome == <<w, SysMsg(WelcomeText(Len(clients')))>>
            IN /\ messages' = Append(messages, join)
               /\ IF \E v \in KeySet(clients) : TRUE
                  THEN /\ JoinBroadcast(w)'
                       /\ bc'[w].message = join /\ bc'[w].exclude = w
                       /\ bc'[w].targets = Keys(clients')
                       /\ Sent \subseteq {<<bc'[w].targets[bc'[w].i], join>>}
                  ELSE pc'[w] = "loop" /\ Sent = {welcome}
       ELSE TRUE
    /\ IF variant = "tcp" /\ JoinBroadcast(w) /\ (FrameMoved(w) \/ BcEnd(w))
       THEN /\ messages' = messages
            /\ \A r \in Sent :
                  \/ r[1] # w /\ r[2] = bc[w].message /\ r[1] \in Range(bc[w].targets)
                  \/ BcEnd(w) /\ r = <<w, SysMsg(WelcomeText(Len(clients')))>>
            /\ BcEnd(w) /\ sock'[w] = "open" => <<w, SysMsg(WelcomeText(Len(clients')))>> \in Sent
       ELSE TRUE
C26_HttpStep(t) ==
    IF Creates(t)
    THEN /\ Has(clients', request'[t].session_id)
         /\ Get(clients', request'[t].session_id) = request'[t].username
         /\ messages' = Append(messages, SysMsg(JoinText(request'[t].username)))
    ELSE TRUE
C26_OneJoinMessage ==
    [][(\A w \in Writers : C26_Step(w)) /\ (\A t \in Requests : C26_HttpStep(t))]_vars
\* a renamed TCP session has just joined: its join message went to the session
\* that holds the name it asked for
C26_Witness ==
    /\ variant = "tcp" /\ Len(clients) = 2 /\ clients[2][2] = "a_1"
    /\ JoinBroadcast(clients[2][1])
    /\ messages[Len(messages)] = SysMsg(JoinText("a_1"))
    /\ wrote = {<<clients[1][1], SysMsg(JoinText("a_1"))>>, <<"console", RenamedLog("a", "a_1")>>}

\* the thread p has its snapshot complete in this step
SnapshotTaken(p) == pc[p] # "write" /\ pc'[p] = "write"
\* the thread p writes the snapshot it has built to the log file in this step
SnapshotWritten(p) == pc[p] = "write" /\ pc'[p] # "write"
\* C27: a snapshot of the TCP or the HTTP server, taken on the periodic tick or
\* on a manual trigger while the handlers run, has as its messages list the
\* history of the instant at which the list was copied, and when it is written
\* to the file its total_messages is the length of its messages list and its
\* current_online_users is the length of its online_users list.
C27_Step(p) ==
    /\ IF SnapshotTaken(p) THEN log_data'[p].messages = messages ELSE TRUE
    /\ IF SnapshotWritten(p)
       THEN /\ log_data[p].total_messages = Len(log_data[p].messages)
            /\ log_data[p].current_online_users = Len(log_data[p].online_users)
       ELSE TRUE
C27_SnapshotConsistent == [][\A p \in Requests \cup {"periodic", "console"} : C27_Step(p)]_vars

\* the first of n, n_1, n_2, ... that is not among the names
FirstFree(n, names) ==
    Numbered(n, Min({i \in 0..(Cardinality(names) + 1) : Numbered(n, i) \notin names}))
\* C28: the name a new session is given depends only on the names of the
\* sessions live at that moment: a TCP or WebSocket connection asking for n gets
\* the first of n, n_1, n_2, ... that no live session holds, so n itself once
\* its holder is gone, and n_1 again once the holder of n_1 is gone; an HTTP
\* session asking for a name that no live session holds gets that name.
C28_Step(w) ==
    \A n \in {"a", "a_1"} :
        IF variant \in {"tcp", "ws"} /\ Joins(w) /\ Asked(w, n)
        THEN Get(clients', w) = FirstFree(n, ValueSet(clients))
        ELSE TRUE
C28_HttpStep(t) ==
    \A n \in {"a", "", "Anonymous"} :
        IF Creates(t) /\ HttpAsked(t, n) /\ n \notin ValueSet(clients)
        THEN request'[t].username = n
        ELSE TRUE
C28_OnlyLiveNamesCount ==
    [][(\A w \in Writers : C28_Step(w)) /\ (\A t \in Requests : C28_HttpStep(t))]_vars
\* a TCP connection has been given the name a after the session that held it
\* had been removed
C28_Witness ==
    /\ variant = "tcp"
    /\ \E v, w \in Writers :
        /\ v # w /\ username[v] = "a" /\ ~Has(clients, v)
        /\ Has(clients, w) /\ Get(clients, w) = "a"
        /\ <<v, SysMsg(JoinText("a"))>> \notin wrote
        /\ messages[Len(messages)] = SysMsg(JoinText("a"))

\* C29: a step that is not the clear of the periodic compaction leaves every
\* entry of the history in its place and unchanged: the history after the step
\* begins with the history before it.
C29_Step ==
    IF ClearStep THEN TRUE
    ELSE /\ Len(messages) <= Len(messages')
         /\ SubSeq(messages', 1, Len(messages)) = messages
C29_HistoryOnlyGrows == [][C29_Step]_vars
\* a message was appended to a history that held one already, with a snapshot
\* of the periodic task waiting to be written
C29_Witness ==
    /\ Len(messages) >= 2 /\ pc["periodic"] = "write"
    /\ Len(log_data["periodic"].messages) < Len(messages)
    /\ log_data["periodic"].messages # <<>>

\* C30: when a broadcast of the TCP server makes its first delivery attempt, the
\* message it carries (join, chat, leave, operator message or shutdown notice)
\* is the last entry of the history.
C30_Step(p) ==
    IF variant = "tcp" /\ BcStart(p)
    THEN /\ Len(messages') > 0
         /\ messages'[Len(messages')] = bc'[p].message
    ELSE TRUE
C30_AppendedBeforeDelivery == [][\A p \in Writers \cup {"console"} : C30_Step(p)]_vars

\* ---------------------------------------------------------------- C31
\* a periodic task leaves its sleep
WakesUp(p) == pc[p] = "sleep" /\ pc'[p] # "sleep"
\* nothing of the registry or of the history changes
NoMutation == UNCHANGED <<clients, client_activity, username_to_session, messages, message_count>>

C31_Step ==
    \A p \in {"periodic", "cleanup"} :
        ~is_running /\ WakesUp(p) => NoMutation /\ pc'[p] = "done"
\* C31: once the running flag is cleared, a periodic task (compaction, session
\* sweep) that wakes up afterwards changes neither the history nor the
\* registry, and ends at that wake-up.
C31_StoppedTasksDoNothing == [][C31_Step]_vars

\* ---------------------------------------------------------------- C32
KnownCommands == {"/help", "/online", "/ping", "/stats", "/savelog"}
\* the step reads a line of w and answers it with the unknown-command reply for cmd
UnknownReplied(w, cmd) ==
    /\ pc[w] = "loop" /\ lines_read' # lines_read
    /\ {r \in wrote' : r[1] = w} =
           {<<w, IF variant = "ws" THEN WsSys(UnknownText(cmd)) ELSE SysMsg(UnknownText(cmd))>>}
\* C32: in every variant the lower-cased first token of a line starting with
\* "/" selects /help, /online, /ping, /stats or /savelog; only another token is
\* answered with the unknown-command reply.
C32_Step ==
    \A w \in Writers, d \in ClientLines :
        UnknownReplied(w, Lower(FirstToken(Strip(d)))) =>
            Lower(FirstToken(Strip(d))) \notin KnownCommands
C32_SameDispatchEverywhere == [][C32_Step]_vars

\* ---------------------------------------------------------------- C33
\* the handshake of w ends without a join: rejected name, end of stream or timeout
Rejected(w) == variant = "tcp" /\ pc[w] = "handshake" /\ pc'[w] = "done"
\* the peer index names w
Indexed(index, w) == \E ip \in DOMAIN index : index[ip] = w
\* C33: when the TCP handshake of a connection is rejected or times out, the
\* live sessions are as before and neither client_info nor ip_to_writer keeps
\* an entry for the connection.
C33_Step ==
    \A w \in Writers :
        Rejected(w) => /\ clients' = clients
                       /\ w \notin DOMAIN client_info'
                       /\ ~Indexed(ip_to_writer', w)
C33_RejectedLeavesNoTrace == [][C33_Step]_vars

\* ---------------------------------------------------------------- C34
\* the receive loop of w takes one line in this step: one the peer sends now, or
\* the one its StreamReader holds
Reads(w) ==
    /\ variant = "tcp" /\ pc[w] = "loop" /\ lines_read' # lines_read
    /\ IF inbox[w] = <<>> THEN sock[w] = "open" /\ inbox' = inbox ELSE inbox'[w] # inbox[w]
\* the step appends a chat message of w to the history
Says(w) ==
    /\ Reads(w) /\ Len(messages') = Len(messages) + 1
    /\ messages'[Len(messages')].type = "message"
    /\ messages'[Len(messages')].username = username[w]
\* C34: a chat message is appended to the TCP history only for a session that
\* is in clients at the moment of the append.
C34_Step == \A w \in Writers : Says(w) => Has(clients, w)
C34_OnlyLiveSessionsSpeak == [][C34_Step]_vars

\* ---------------------------------------------------------------- C35
\* C35: in the HTTP server client_activity has exactly the keys of clients, and
\* username_to_session is the inverse of clients: its names are the names of
\* the live sessions, each bound to the id of its session.
C35_RegistryMapsAgree ==
    variant = "http" =>
        /\ DOMAIN client_activity = KeySet(clients)
        /\ DOMAIN username_to_session = ValueSet(clients)
        /\ \A i \in 1..Len(clients) : username_to_session[clients[i][2]] = clients[i][1]
\* one session was swept for its silence while another one stays
C35_Witness ==
    /\ variant = "http" /\ Len(clients) = 1
    /\ \E i \in 1..Len(messages) : messages[i] = SysMsg(TimeoutText("a"))

\* ---------------------------------------------------------------- C36
\* C36: when a TCP session leaves clients, by its own disconnect or by an
\* eviction, ip_to_writer no longer names its connection.
C36_Step == \A w \in Writers : Has(clients, w) /\ ~Has(clients', w) => ~Indexed(ip_to_writer', w)
C36_PeerIndexFollowsSessions == [][C36_Step]_vars

\* ---------------------------------------------------------------- C37
\* the handler of t sends the response of GET /messages
PollAnswered(t) == variant = "http" /\ pc[t] = "total" /\ pc'[t] = "idle"
\* C37: the total of a GET /messages?since=N response is the length the history
\* had when the returned slice was taken: total = N + the number of returned
\* messages (checked where the slice is not empty, so that N was within the history).
C37_Step ==
    \A t \in Requests :
        PollAnswered(t) /\ Len(request[t].messages) > 0 =>
            <<t, [success |-> TRUE, messages |-> request[t].messages,
                  total |-> request[t].since + Len(request[t].messages)]>> \in wrote'
C37_TotalMatchesSlice == [][C37_Step]_vars

\* ---------------------------------------------------------------- C38
\* the messages the responses to t have carried so far
Delivered(t) == UNION {Range(received[t][k].messages) : k \in 1..Len(received[t])}
\* t is live, between two polls, and has polled before
Following(t) == variant = "http" /\ pc[t] = "idle" /\ agent_sid[t] # None
                /\ Has(clients, agent_sid[t]) /\ received[t] # <<>>
\* C38: a live HTTP client that polls with since = the last total gets every
\* message of the history, also across a compaction: no message stands in the
\* history before the position its next poll starts from without having been
\* delivered to it.
C38_NothingSkipped ==
    \A t \in DOMAIN received :
        Following(t) => \A i \in 1..Len(messages) : i <= Cursor(t) => messages[i] \in Delivered(t)

\* ---------------------------------------------------------------- C39
\* C39: a GET /messages response of the HTTP server that carries history
\* messages goes to a user agent that holds a session id.
C39_Step ==
    \A t \in Requests :
        PollAnswered(t) /\ Len(request[t].messages) > 0 => agent_sid[t] # None
C39_HistoryOnlyForSessions == [][C39_Step]_vars

\* ================================================================ WebSocket-to-TCP bridge
\* (bridge_server.py) One behaviour is one bridged connection: handle_websocket
\* and its two forwarding tasks.  sock.websocket is the browser's connection,
\* sock.tcp_writer the connection to the TCP server; inbox holds what either
\* peer has sent and the bridge has not read yet.
BridgeTasks == {"handle_websocket", "ws_to_tcp", "tcp_to_ws"}
\* what the browser sends, and the lines of the TCP server
BridgeMessages == {"a", "hi"}
BridgeLines == {"welcome", "a: hi"}

InitBridge ==
    /\ variant = "bridge"
    /\ pc = [p \in BridgeTasks |-> IF p = "handle_websocket" THEN "connect" ELSE "none"]
    /\ sock = [c \in {"websocket", "tcp_writer"} |-> IF c = "websocket" THEN "open" ELSE "none"]
    /\ inbox = [c \in {"websocket", "tcp_reader"} |-> <<>>]
    /\ wrote = {}
    /\ lines_read = 0
    /\ clients = <<>> /\ client_info = <<>> /\ ip_to_writer = <<>> /\ messages = <<>>
    /\ message_count = 0 /\ is_running = TRUE /\ ticks = 0
    /\ client_ip = <<>> /\ username = <<>> /\ old_writer = <<>> /\ bc = <<>>
    /\ received = <<>> /\ log_data = <<>>
    /\ username_to_session = <<>> /\ client_activity = <<>> /\ session_counter = 0
    /\ lock = None /\ now = 0 /\ request = <<>> /\ agent_sid = <<>>

\* what the bridge does not touch
bridgeFrame == <<variant, httpVars, clients, client_info, ip_to_writer, messages, message_count,
                 is_running, username, client_ip, old_writer, bc, received, log_data, ticks>>

\* handle_websocket: open_connection returns or raises; on success the two
\* forwarding tasks are created and gathered
BridgeConnect(ok) ==
    /\ variant = "bridge" /\ pc["handle_websocket"] = "connect"
    /\ IF ok
       THEN /\ pc' = [p \in BridgeTasks |-> IF p = "handle_websocket" THEN "gather" ELSE "wait"]
            /\ sock' = [sock EXCEPT !["tcp_writer"] = "open"]
       ELSE /\ pc' = [pc EXCEPT !["handle_websocket"] = "done"]
            /\ sock' = sock
    /\ wrote' = {}
    /\ UNCHANGED <<bridgeFrame, inbox, lines_read>>

\* the browser sends a message
WsPeerSends(message) ==
    /\ variant = "bridge" /\ sock["websocket"] = "open" /\ lines_read < MaxChat
    /\ inbox' = [inbox EXCEPT !["websocket"] = Append(@, message)]
    /\ lines_read' = lines_read + 1
    /\ wrote' = {}
    /\ UNCHANGED <<bridgeFrame, pc, sock>>

\* the browser closes its WebSocket
WsPeerCloses ==
    /\ variant = "bridge" /\ sock["websocket"] = "open"
    /\ sock' = [sock EXCEPT !["websocket"] = "closed"]
    /\ wrote' = {}
    /\ UNCHANGED <<bridgeFrame, pc, inbox, lines_read>>

\* the TCP server sends a line
TcpPeerSends(line) ==
    /\ variant = "bridge" /\ sock["tcp_writer"] = "open" /\ lines_read < MaxChat
    /\ inbox' = [inbox EXCEPT !["tcp_reader"] = Append(@, line)]
    /\ lines_read' = lines_read + 1
    /\ wrote' = {}
    /\ UNCHANGED <<bridgeFrame, pc, sock>>

\* the TCP server closes the connection
TcpPeerCloses ==
    /\ variant = "bridge" /\ sock["tcp_writer"] = "open"
    /\ sock' = [sock EXCEPT !["tcp_writer"] = "reset"]
    /\ wrote' = {}
    /\ UNCHANGED <<bridgeFrame, pc, inbox, lines_read>>

\* forward_ws_to_tcp resumes: `async for` yields the next message, which is
\* written and drained (drain() raises on a lost connection), or ends because
\* the WebSocket is closed
ForwardWsToTcp ==
    /\ variant = "bridge" /\ pc["ws_to_tcp"] = "wait"
    /\ IF inbox["websocket"] # <<>>
       THEN /\ inbox' = [inbox EXCEPT !["websocket"] = Tail(@)]
            /\ IF sock["tcp_writer"] = "open"
               THEN pc' = pc /\ wrote' = {<<"tcp_writer", Head(inbox["websocket"]) \o "\n">>}
               ELSE pc' = [pc EXCEPT !["ws_to_tcp"] = "done"] /\ wrote' = {}
       ELSE /\ sock["websocket"] = "closed"
            /\ pc' = [pc EXCEPT !["ws_to_tcp"] = "done"]
            /\ inbox' = inbox /\ wrote' = {}
    /\ UNCHANGED <<bridgeFrame, sock, lines_read>>

\* forward_tcp_to_ws resumes: readline() returns a line, which is sent to the
\* WebSocket (send raises on a closed one), or b'' at the end of the stream
ForwardTcpToWs ==
    /\ variant = "bridge" /\ pc["tcp_to_ws"] = "wait"
    /\ IF inbox["tcp_reader"] # <<>>
       THEN /\ inbox' = [inbox EXCEPT !["tcp_reader"] = Tail(@)]
            /\ IF sock["websocket"] = "open"
               THEN pc' = pc /\ wrote' = {<<"websocket", Strip(Head(inbox["tcp_reader"]))>>}
               ELSE pc' = [pc EXCEPT !["tcp_to_ws"] = "done"] /\ wrote' = {}
       ELSE /\ sock["tcp_writer"] = "reset"
            /\ pc' = [pc EXCEPT !["tcp_to_ws"] = "done"]
            /\ inbox' = inbox /\ wrote' = {}
    /\ UNCHANGED <<bridgeFrame, sock, lines_read>>

\* handle_websocket: gather returns once both tasks are done; finally closes tcp_writer
BridgeGathered ==
    /\ variant = "bridge" /\ pc["handle_websocket"] = "gather"
    /\ pc["ws_to_tcp"] = "done" /\ pc["tcp_to_ws"] = "done"
    /\ pc' = [pc EXCEPT !["handle_websocket"] = "done"]
    /\ sock' = [sock EXCEPT !["tcp_writer"] = "closed"]
    /\ wrote' = {}
    /\ UNCHANGED <<bridgeFrame, inbox, lines_read>>

\* the steps of the bridge itself, and those of its two peers
BridgeSteps == (\E ok \in BOOLEAN : BridgeConnect(ok)) \/ ForwardWsToTcp \/ ForwardTcpToWs \/ BridgeGathered
NextBridge ==
    \/ BridgeSteps
    \/ \E message \in BridgeMessages : WsPeerSends(message)
    \/ WsPeerCloses
    \/ \E line \in BridgeLines : TcpPeerSends(line)
    \/ TcpPeerCloses
SpecBridge == InitBridge /\ [][NextBridge]_vars
\* the event loop runs every task that can go on; nothing makes a peer send or close
SpecBridgeFair == SpecBridge /\ WF_vars(BridgeSteps)

\* ---------------------------------------------------------------- C40
\* one side of the bridged connection has closed
OneSideClosed ==
    variant = "bridge" /\ pc["handle_websocket"] = "gather"
    /\ (sock["websocket"] = "closed" \/ sock["tcp_writer"] = "reset")
\* both forwarding tasks have ended and the TCP connection is closed
BridgeTornDown ==
    pc["ws_to_tcp"] = "done" /\ pc["tcp_to_ws"] = "done" /\ sock["tcp_writer"] = "closed"
\* C40: once either side of a bridged connection has closed, the bridge
\* eventually ends both forwarding tasks and closes the TCP connection, whatever
\* the side that is still open does.
C40_BridgeTearsDown == OneSideClosed ~> BridgeTornDown

====
